---- MODULE Spec2Model ----
(***************************************************************************)
(* Setting-tree codec and replace-based reconciliation of the              *)
(* intune_settings_catalog_policy_settings resource (tofutune).            *)
(*                                                                         *)
(* Text is a sequence of lexemes.  A lexeme is one character, or a fixed   *)
(* run of characters that the model never splits ("null", "true", "nil",   *)
(* the JSON escapes of "<" and ">").                                       *)
(***************************************************************************)
EXTENDS Integers, Sequences, FiniteSets, TLC

VARIABLES
    remote,     \* policy id -> [exists, settings]: the service's store
    tfstate,    \* resource -> Terraform state of the resource
    pc,         \* resource -> "idle" | "waiting" (blocked in the HTTP call)
    cur,        \* resource -> the handler call in progress
    req,        \* resource -> the request in flight from the handler
    resp,       \* resource -> the response on its way back
    sent,       \* every request sent so far, in order
    done,       \* resource -> outcome of the last finished handler call
    applied,    \* the writes the service has applied, in order
    nops,       \* handler calls started so far
    cIn,        \* codec run: the declared list
    cStage,     \* codec run: position in encode / decode / encode / decode
    cEnc,       \* codec run: result of the first convertToAPISettings
    cDec,       \* codec run: result of the first convertAPISettingsToModel
    cEnc2,      \* codec run: result of the second convertToAPISettings
    cDec2       \* codec run: result of the second convertAPISettingsToModel

lifeVars == <<remote, tfstate, pc, cur, req, resp, sent, done, applied, nops>>
codecVars == <<cIn, cStage, cEnc, cDec, cEnc2, cDec2>>
vars == <<remote, tfstate, pc, cur, req, resp, sent, done, applied, nops,
          cIn, cStage, cEnc, cDec, cEnc2, cDec2>>

(***************************************************************************)
(* Bounds of the model.                                                    *)
(***************************************************************************)
MaxLen == 2         \* longest enumerated scalar text, in lexemes
MaxColl == 2        \* most elements of an enumerated collection
MaxChildren == 2    \* most children of an enumerated choice or group
MaxList == 2        \* most settings of an enumerated declared list
MaxOps == 3         \* handler calls per behaviour of the life cycle

(***************************************************************************)
(* Text helpers.                                                           *)
(***************************************************************************)
Digits == {"0", "1", "2", "3", "4", "5", "6", "7", "8", "9"}

DigitVal(c) ==
    CASE c = "0" -> 0 [] c = "1" -> 1 [] c = "2" -> 2 [] c = "3" -> 3
      [] c = "4" -> 4 [] c = "5" -> 5 [] c = "6" -> 6 [] c = "7" -> 7
      [] c = "8" -> 8 [] c = "9" -> 9 [] OTHER -> 0

SeqsUpTo(S, n) == UNION {[1..k -> S] : k \in 0..n}

RECURSIVE Flatten(_)
Flatten(ss) == IF ss = <<>> THEN <<>> ELSE Head(ss) \o Flatten(Tail(ss))

RECURSIVE Join(_, _)
Join(ss, sep) ==
    IF ss = <<>> THEN <<>>
    ELSE IF Len(ss) = 1 THEN Head(ss)
    ELSE Head(ss) \o sep \o Join(Tail(ss), sep)

(***************************************************************************)
(* types.String and types.List of the plugin framework: a null flag and    *)
(* the value; ValueString of a null string is the empty string.            *)
(***************************************************************************)
StringNull == [null |-> TRUE, s |-> <<>>]
StringValue(t) == [null |-> FALSE, s |-> t]
ValueString(v) == v.s

ListNull == [null |-> TRUE, elems |-> <<>>]
ListValue(es) == [null |-> FALSE, elems |-> es]

(***************************************************************************)
(* strconv.ParseInt(value, 10, 64).  The wire integer is kept as its       *)
(* canonical decimal text, so that no 64-bit arithmetic is needed: the     *)
(* range check compares magnitudes digit by digit.                         *)
(***************************************************************************)
MaxInt64Mag == <<"9","2","2","3","3","7","2","0","3","6","8","5","4","7","7","5","8","0","7">>
MinInt64Mag == <<"9","2","2","3","3","7","2","0","3","6","8","5","4","7","7","5","8","0","8">>

IsDigits(t) == Len(t) > 0 /\ \A i \in 1..Len(t) : t[i] \in Digits

RECURSIVE StripZeros(_)
StripZeros(t) ==
    IF Len(t) > 1 /\ Head(t) = "0" THEN StripZeros(Tail(t)) ELSE t

RECURSIVE LexLE(_, _)
LexLE(a, b) ==
    IF a = <<>> THEN TRUE
    ELSE IF DigitVal(Head(a)) < DigitVal(Head(b)) THEN TRUE
    ELSE IF DigitVal(Head(a)) > DigitVal(Head(b)) THEN FALSE
    ELSE LexLE(Tail(a), Tail(b))

MagLE(a, b) == Len(a) < Len(b) \/ (Len(a) = Len(b) /\ LexLE(a, b))

\* the magnitude is not checked against the 64-bit range
ParseInt_NoRangeCheck(t) ==
    LET neg  == t # <<>> /\ Head(t) = "-"
        sign == t # <<>> /\ Head(t) \in {"+", "-"}
        body == IF sign THEN Tail(t) ELSE t
        mag  == StripZeros(body)
    IN  IF ~IsDigits(body) THEN [err |-> "syntax", v |-> <<>>]
        ELSE [err |-> "", v |-> IF neg /\ mag # <<"0">> THEN <<"-">> \o mag ELSE mag]

ParseInt(t) ==
    LET neg  == t # <<>> /\ Head(t) = "-"
        sign == t # <<>> /\ Head(t) \in {"+", "-"}
        body == IF sign THEN Tail(t) ELSE t
        mag  == StripZeros(body)
    IN  IF ~IsDigits(body) THEN [err |-> "syntax", v |-> <<>>]
        ELSE IF ~MagLE(mag, IF neg THEN MinInt64Mag ELSE MaxInt64Mag)
             THEN [err |-> "range", v |-> <<>>]
        ELSE [err |-> "", v |-> IF neg /\ mag # <<"0">> THEN <<"-">> \o mag ELSE mag]

(***************************************************************************)
(* A Go interface{} value: k is the dynamic type, v its text (the          *)
(* canonical decimal text for numbers, "true"/"false" for bool), items     *)
(* the elements of a slice.                                                *)
(***************************************************************************)
GoString(t) == [k |-> "string", v |-> t, items |-> <<>>]
GoInt64(t) == [k |-> "int64", v |-> t, items |-> <<>>]
GoFloat64(t) == [k |-> "float64", v |-> t, items |-> <<>>]
GoBool(b) == [k |-> "bool", v |-> IF b THEN <<"true">> ELSE <<"false">>, items |-> <<>>]
GoNil == [k |-> "nil", v |-> <<>>, items |-> <<>>]
GoMap == [k |-> "map", v |-> <<>>, items |-> <<>>]
GoSlice(vs) == [k |-> "slice", v |-> <<>>, items |-> vs]

(***************************************************************************)
(* fmt's %v of a float64 holding an integer of at most 15 digits: the      *)
(* shortest %g form, which switches to the exponent form at 1e+06.         *)
(***************************************************************************)
RECURSIVE StripTrailingZeros(_)
StripTrailingZeros(t) ==
    IF Len(t) > 1 /\ t[Len(t)] = "0"
    THEN StripTrailingZeros(SubSeq(t, 1, Len(t) - 1)) ELSE t

DigitOf(n) ==
    CASE n = 0 -> "0" [] n = 1 -> "1" [] n = 2 -> "2" [] n = 3 -> "3"
      [] n = 4 -> "4" [] n = 5 -> "5" [] n = 6 -> "6" [] n = 7 -> "7"
      [] n = 8 -> "8" [] OTHER -> "9"

FormatFloat(t) ==
    LET neg  == t # <<>> /\ Head(t) = "-"
        mag  == IF neg THEN Tail(t) ELSE t
        sgn  == IF neg THEN <<"-">> ELSE <<>>
        exp  == Len(mag) - 1
        digs == StripTrailingZeros(mag)
    IN  IF exp < 6 THEN t
        ELSE sgn \o <<Head(digs)>>
                 \o (IF Len(digs) > 1 THEN <<".">> \o Tail(digs) ELSE <<>>)
                 \o <<"e", "+", DigitOf(exp \div 10), DigitOf(exp % 10)>>

RECURSIVE Sprintf_v(_)
Sprintf_v(x) ==
    CASE x.k = "string"  -> x.v
      [] x.k = "int64"   -> x.v
      [] x.k = "bool"    -> x.v
      [] x.k = "float64" -> FormatFloat(x.v)
      [] x.k = "nil"     -> <<"<", "nil", ">">>
      [] x.k = "map"     -> <<"map", "[", "]">>
      [] OTHER           ->
           <<"[">> \o Join([i \in 1..Len(x.items) |-> Sprintf_v(x.items[i])], <<" ">>)
                   \o <<"]">>

(***************************************************************************)
(* encoding/json, for the JSON texts the lexemes can spell: white space,   *)
(* arrays, string literals, integer numbers, null, true, false and the     *)
(* empty object.  Fractions, exponents and object members need lexemes     *)
(* that no enumerated text carries outside a string literal.               *)
(***************************************************************************)
Quote == "\""
EscLT == "\\u003c"
EscGT == "\\u003e"

ParseFail == [ok |-> FALSE, val |-> GoNil, next |-> 0]

RECURSIVE SkipWS(_, _)
SkipWS(t, i) == IF i <= Len(t) /\ t[i] = " " THEN SkipWS(t, i + 1) ELSE i

\* the literal starting after the opening quote at position i
RECURSIVE ScanString(_, _, _)
ScanString(t, i, acc) ==
    IF i > Len(t) THEN ParseFail
    ELSE IF t[i] = Quote THEN [ok |-> TRUE, val |-> GoString(acc), next |-> i + 1]
    ELSE IF t[i] = EscLT THEN ScanString(t, i + 1, Append(acc, "<"))
    ELSE IF t[i] = EscGT THEN ScanString(t, i + 1, Append(acc, ">"))
    ELSE ScanString(t, i + 1, Append(acc, t[i]))

RECURSIVE ScanDigits(_, _)
ScanDigits(t, i) == IF i <= Len(t) /\ t[i] \in Digits THEN ScanDigits(t, i + 1) ELSE i

ScanNumber(t, i) ==
    LET neg == t[i] = "-"
        b   == IF neg THEN i + 1 ELSE i
        e   == ScanDigits(t, b)
    IN  IF e = b THEN ParseFail
        ELSE IF t[b] = "0"
             THEN [ok |-> TRUE,
                   val |-> GoFloat64(IF neg THEN <<"-", "0">> ELSE <<"0">>),
                   next |-> b + 1]
        ELSE [ok |-> TRUE, val |-> GoFloat64(SubSeq(t, i, e - 1)), next |-> e]

RECURSIVE ScanValue(_, _)
RECURSIVE ScanElems(_, _, _)

\* the elements after "[" or ",": position i is the start of a value
ScanElems(t, i, acc) ==
    LET r == ScanValue(t, SkipWS(t, i))
        j == SkipWS(t, r.next)
    IN  IF ~r.ok THEN ParseFail
        ELSE IF j > Len(t) THEN ParseFail
        ELSE IF t[j] = "]"
             THEN [ok |-> TRUE, val |-> GoSlice(Append(acc, r.val)), next |-> j + 1]
        ELSE IF t[j] = "," THEN ScanElems(t, j + 1, Append(acc, r.val))
        ELSE ParseFail

ScanValue(t, i) ==
    IF i > Len(t) THEN ParseFail
    ELSE IF t[i] = "[" THEN
        LET j == SkipWS(t, i + 1)
        IN  IF j <= Len(t) /\ t[j] = "]"
            THEN [ok |-> TRUE, val |-> GoSlice(<<>>), next |-> j + 1]
            ELSE ScanElems(t, i + 1, <<>>)
    ELSE IF t[i] = "{" THEN
        LET j == SkipWS(t, i + 1)
        IN  IF j <= Len(t) /\ t[j] = "}"
            THEN [ok |-> TRUE, val |-> GoMap, next |-> j + 1]
            ELSE ParseFail
    ELSE IF t[i] = Quote THEN ScanString(t, i + 1, <<>>)
    ELSE IF t[i] = "-" \/ t[i] \in Digits THEN ScanNumber(t, i)
    ELSE IF t[i] = "null" THEN [ok |-> TRUE, val |-> GoNil, next |-> i + 1]
    ELSE IF t[i] = "true" THEN [ok |-> TRUE, val |-> GoBool(TRUE), next |-> i + 1]
    ELSE IF t[i] = "false" THEN [ok |-> TRUE, val |-> GoBool(FALSE), next |-> i + 1]
    ELSE ParseFail

\* json.Unmarshal([]byte(value), &values) with values a []interface{}
Unmarshal(t) ==
    LET r == ScanValue(t, SkipWS(t, 1))
    IN  IF ~r.ok \/ SkipWS(t, r.next) <= Len(t) THEN [err |-> "syntax", values |-> <<>>]
        ELSE IF r.val.k = "nil" THEN [err |-> "", values |-> <<>>]
        ELSE IF r.val.k = "slice" THEN [err |-> "", values |-> r.val.items]
        ELSE [err |-> "type", values |-> <<>>]

\* json.Marshal of a Go string: quotes, with "<" and ">" escaped
RECURSIVE EscapeText(_)
EscapeText(t) ==
    IF t = <<>> THEN <<>>
    ELSE (IF Head(t) = "<" THEN <<EscLT>>
          ELSE IF Head(t) = ">" THEN <<EscGT>>
          ELSE <<Head(t)>>) \o EscapeText(Tail(t))

MarshalString(t) == <<Quote>> \o EscapeText(t) \o <<Quote>>

\* json.Marshal(values) with values a non-nil []string
\* the texts joined as they are, with neither quotes nor escapes
Marshal_Unquoted(ts) ==
    <<"[">> \o Join(ts, <<",">>) \o <<"]">>

Marshal(ts) ==
    <<"[">> \o Join([i \in 1..Len(ts) |-> MarshalString(ts[i])], <<",">>) \o <<"]">>

(***************************************************************************)
(* The wire structs of the Graph client.  A nil pointer is a record with   *)
(* nil = TRUE; a nil slice and an empty slice are both <<>> (the code      *)
(* only takes len() of them and "omitempty" drops both).                   *)
(***************************************************************************)
ODataSetting == "#microsoft.graph.deviceManagementConfigurationSetting"
ODataSimpleInstance == "#microsoft.graph.deviceManagementConfigurationSimpleSettingInstance"
ODataChoiceInstance == "#microsoft.graph.deviceManagementConfigurationChoiceSettingInstance"
ODataCollectionInstance == "#microsoft.graph.deviceManagementConfigurationSimpleSettingCollectionInstance"
ODataGroupInstance == "#microsoft.graph.deviceManagementConfigurationGroupSettingInstance"
ODataStringValue == "#microsoft.graph.deviceManagementConfigurationStringSettingValue"
ODataIntegerValue == "#microsoft.graph.deviceManagementConfigurationIntegerSettingValue"
ODataBooleanValue == "#microsoft.graph.deviceManagementConfigurationBooleanSettingValue"
ODataChoiceValue == "#microsoft.graph.deviceManagementConfigurationChoiceSettingValue"
ODataGroupValue == "#microsoft.graph.deviceManagementConfigurationGroupSettingValue"

SimpleSettingValue(odata, val) == [nil |-> FALSE, ODataType |-> odata, Value |-> val]
NilSimpleSettingValue == [nil |-> TRUE, ODataType |-> "", Value |-> GoNil]

ChoiceSettingValue(val, children) ==
    [nil |-> FALSE, ODataType |-> ODataChoiceValue, Value |-> val, Children |-> children]
NilChoiceSettingValue == [nil |-> TRUE, ODataType |-> "", Value |-> <<>>, Children |-> <<>>]

GroupSettingValue(children) ==
    [nil |-> FALSE, ODataType |-> ODataGroupValue, Children |-> children]
NilGroupSettingValue == [nil |-> TRUE, ODataType |-> "", Children |-> <<>>]

\* &clients.SettingInstance{SettingDefinitionId: id}
\* json:"children,omitempty": the member is written for a non-empty slice only
ChildrenFieldPresent(v) == ~v.nil /\ Len(v.Children) > 0

SettingInstance(id) ==
    [nil |-> FALSE, ODataType |-> "", SettingDefinitionId |-> id,
     SimpleSettingValue |-> NilSimpleSettingValue,
     ChoiceSettingValue |-> NilChoiceSettingValue,
     SimpleSettingCollectionValue |-> <<>>,
     GroupSettingValue |-> NilGroupSettingValue,
     GroupSettingCollectionValue |-> <<>>]
NilSettingInstance == [SettingInstance("") EXCEPT !.nil = TRUE]

SettingsCatalogPolicySetting(instance) ==
    [ODataType |-> ODataSetting, SettingInstance |-> instance]

(***************************************************************************)
(* The Terraform models.  definition_id and value_type are plain strings   *)
(* (they are never null in a declared or in a decoded setting); value is   *)
(* a types.String and children a types.List.                               *)
(***************************************************************************)
SettingModel(id, vt, val, children) ==
    [definition_id |-> id, value_type |-> vt, value |-> val, children |-> children]

ChildSettingModel(id, vt, val) ==
    [definition_id |-> id, value_type |-> vt, value |-> val]

\* diag.Diagnostics: the errors added so far
HasError(diags) == diags # <<>>

AddError(diags, summary, value, cause) ==
    Append(diags, [summary |-> summary, value |-> value, cause |-> cause])

(***************************************************************************)
(* Encode: convertChildSetting, convertSettingInstance,                    *)
(* convertToAPISettings.  Each returns its result with the diagnostics     *)
(* it was handed, extended by the errors it added.                         *)
(***************************************************************************)
\* a child integer that does not parse is left out without a diagnostic
convertChildSetting_SilentInteger(child, diags) ==
    LET inst      == SettingInstance(child.definition_id)
        valueType == child.value_type
        value     == ValueString(child.value)
        int       == ParseInt(value)
        wrap(i)   == [nil |-> FALSE, setting |-> SettingsCatalogPolicySetting(i), diags |-> diags]
    IN  CASE valueType = "string" ->
               wrap([inst EXCEPT !.ODataType = ODataSimpleInstance,
                                 !.SimpleSettingValue =
                                     SimpleSettingValue(ODataStringValue, GoString(value))])
          [] valueType = "integer" ->
               IF int.err # ""
               THEN [nil |-> TRUE, setting |-> SettingsCatalogPolicySetting(NilSettingInstance),
                     diags |-> diags]
               ELSE wrap([inst EXCEPT !.ODataType = ODataSimpleInstance,
                                      !.SimpleSettingValue =
                                          SimpleSettingValue(ODataIntegerValue, GoInt64(int.v))])
          [] valueType = "boolean" ->
               wrap([inst EXCEPT !.ODataType = ODataSimpleInstance,
                                 !.SimpleSettingValue =
                                     SimpleSettingValue(ODataBooleanValue,
                                                        GoBool(value = <<"true">>))])
          [] valueType = "choice" ->
               wrap([inst EXCEPT !.ODataType = ODataChoiceInstance,
                                 !.ChoiceSettingValue = ChoiceSettingValue(value, <<>>)])
          [] OTHER -> wrap(inst)

convertChildSetting(child, diags) ==
    LET inst      == SettingInstance(child.definition_id)
        valueType == child.value_type
        value     == ValueString(child.value)
        int       == ParseInt(value)
        wrap(i)   == [nil |-> FALSE, setting |-> SettingsCatalogPolicySetting(i), diags |-> diags]
    IN  CASE valueType = "string" ->
               wrap([inst EXCEPT !.ODataType = ODataSimpleInstance,
                                 !.SimpleSettingValue =
                                     SimpleSettingValue(ODataStringValue, GoString(value))])
          [] valueType = "integer" ->
               IF int.err # ""
               THEN [nil |-> TRUE, setting |-> SettingsCatalogPolicySetting(NilSettingInstance),
                     diags |-> AddError(diags, "Invalid Integer Value", value, int.err)]
               ELSE wrap([inst EXCEPT !.ODataType = ODataSimpleInstance,
                                      !.SimpleSettingValue =
                                          SimpleSettingValue(ODataIntegerValue, GoInt64(int.v))])
          [] valueType = "boolean" ->
               wrap([inst EXCEPT !.ODataType = ODataSimpleInstance,
                                 !.SimpleSettingValue =
                                     SimpleSettingValue(ODataBooleanValue,
                                                        GoBool(value = <<"true">>))])
          [] valueType = "choice" ->
               wrap([inst EXCEPT !.ODataType = ODataChoiceInstance,
                                 !.ChoiceSettingValue = ChoiceSettingValue(value, <<>>)])
          [] OTHER -> wrap(inst)

\* the loop over children of a choice or group: a child that fails is left out
RECURSIVE convertChildren(_, _, _)
convertChildren(children, acc, diags) ==
    IF children = <<>> THEN [children |-> acc, diags |-> diags]
    ELSE LET r == convertChildSetting(Head(children), diags)
         IN  convertChildren(Tail(children),
                             IF r.nil THEN acc ELSE Append(acc, r.setting),
                             r.diags)

\* the elements are emitted last to first
collectionValues_Reversed(values) ==
    [i \in 1..Len(values) |->
        SimpleSettingValue(ODataStringValue, GoString(Sprintf_v(values[Len(values) + 1 - i])))]

\* fmt.Sprintf("%v", v) of every parsed element, as string setting values
collectionValues(values) ==
    [i \in 1..Len(values) |-> SimpleSettingValue(ODataStringValue, GoString(Sprintf_v(values[i])))]

\* every boolean text but "false" is taken as true
convertSettingInstance_TrueUnlessFalse(setting, diags) ==
    LET inst        == SettingInstance(setting.definition_id)
        valueType   == setting.value_type
        value       == ValueString(setting.value)
        int         == ParseInt(value)
        arr         == Unmarshal(value)
        hasChildren == ~setting.children.null /\ Len(setting.children.elems) > 0
        kids        == convertChildren(setting.children.elems, <<>>, diags)
        ok(i, d)    == [instance |-> i, diags |-> d]
        fail(d)     == [instance |-> NilSettingInstance, diags |-> d]
    IN  CASE valueType = "string" ->
               ok([inst EXCEPT !.ODataType = ODataSimpleInstance,
                               !.SimpleSettingValue =
                                   SimpleSettingValue(ODataStringValue, GoString(value))],
                  diags)
          [] valueType = "integer" ->
               IF int.err # ""
               THEN fail(AddError(diags, "Invalid Integer Value", value, int.err))
               ELSE ok([inst EXCEPT !.ODataType = ODataSimpleInstance,
                                    !.SimpleSettingValue =
                                        SimpleSettingValue(ODataIntegerValue, GoInt64(int.v))],
                       diags)
          [] valueType = "boolean" ->
               ok([inst EXCEPT !.ODataType = ODataSimpleInstance,
                               !.SimpleSettingValue =
                                   SimpleSettingValue(ODataBooleanValue,
                                                      GoBool(value # <<"false">>))],
                  diags)
          [] valueType = "choice" ->
               IF ~hasChildren
               THEN ok([inst EXCEPT !.ODataType = ODataChoiceInstance,
                                    !.ChoiceSettingValue = ChoiceSettingValue(value, <<>>)],
                       diags)
               ELSE IF HasError(diags) THEN fail(diags)
               ELSE ok([inst EXCEPT !.ODataType = ODataChoiceInstance,
                                    !.ChoiceSettingValue =
                                        ChoiceSettingValue(value, kids.children)],
                       kids.diags)
          [] valueType = "collection" ->
               IF arr.err # ""
               THEN fail(AddError(diags, "Invalid Collection Value", value, arr.err))
               ELSE ok([inst EXCEPT !.ODataType = ODataCollectionInstance,
                                    !.SimpleSettingCollectionValue =
                                        collectionValues(arr.values)],
                       diags)
          [] valueType = "group" ->
               IF ~hasChildren
               THEN ok([inst EXCEPT !.ODataType = ODataGroupInstance,
                                    !.GroupSettingValue = GroupSettingValue(<<>>)],
                       diags)
               ELSE IF HasError(diags) THEN fail(diags)
               ELSE ok([inst EXCEPT !.ODataType = ODataGroupInstance,
                                    !.GroupSettingValue = GroupSettingValue(kids.children)],
                       kids.diags)
          [] OTHER -> ok(inst, diags)

convertSettingInstance(setting, diags) ==
    LET inst        == SettingInstance(setting.definition_id)
        valueType   == setting.value_type
        value       == ValueString(setting.value)
        int         == ParseInt(value)
        arr         == Unmarshal(value)
        hasChildren == ~setting.children.null /\ Len(setting.children.elems) > 0
        kids        == convertChildren(setting.children.elems, <<>>, diags)
        ok(i, d)    == [instance |-> i, diags |-> d]
        fail(d)     == [instance |-> NilSettingInstance, diags |-> d]
    IN  CASE valueType = "string" ->
               ok([inst EXCEPT !.ODataType = ODataSimpleInstance,
                               !.SimpleSettingValue =
                                   SimpleSettingValue(ODataStringValue, GoString(value))],
                  diags)
          [] valueType = "integer" ->
               IF int.err # ""
               THEN fail(AddError(diags, "Invalid Integer Value", value, int.err))
               ELSE ok([inst EXCEPT !.ODataType = ODataSimpleInstance,
                                    !.SimpleSettingValue =
                                        SimpleSettingValue(ODataIntegerValue, GoInt64(int.v))],
                       diags)
          [] valueType = "boolean" ->
               ok([inst EXCEPT !.ODataType = ODataSimpleInstance,
                               !.SimpleSettingValue =
                                   SimpleSettingValue(ODataBooleanValue,
                                                      GoBool(value = <<"true">>))],
                  diags)
          [] valueType = "choice" ->
               IF ~hasChildren
               THEN ok([inst EXCEPT !.ODataType = ODataChoiceInstance,
                                    !.ChoiceSettingValue = ChoiceSettingValue(value, <<>>)],
                       diags)
               ELSE IF HasError(diags) THEN fail(diags)
               ELSE ok([inst EXCEPT !.ODataType = ODataChoiceInstance,
                                    !.ChoiceSettingValue =
                                        ChoiceSettingValue(value, kids.children)],
                       kids.diags)
          [] valueType = "collection" ->
               IF arr.err # ""
               THEN fail(AddError(diags, "Invalid Collection Value", value, arr.err))
               ELSE ok([inst EXCEPT !.ODataType = ODataCollectionInstance,
                                    !.SimpleSettingCollectionValue =
                                        collectionValues(arr.values)],
                       diags)
          [] valueType = "group" ->
               IF ~hasChildren
               THEN ok([inst EXCEPT !.ODataType = ODataGroupInstance,
                                    !.GroupSettingValue = GroupSettingValue(<<>>)],
                       diags)
               ELSE IF HasError(diags) THEN fail(diags)
               ELSE ok([inst EXCEPT !.ODataType = ODataGroupInstance,
                                    !.GroupSettingValue = GroupSettingValue(kids.children)],
                       kids.diags)
          [] OTHER -> ok(inst, diags)

\* the loop of convertToAPISettings: every setting is appended, nil instance or not
RECURSIVE convertLoop(_, _, _)
convertLoop(settings, acc, diags) ==
    IF settings = <<>> THEN [apiSettings |-> acc, diags |-> diags]
    ELSE LET r == convertSettingInstance(Head(settings), diags)
         IN  convertLoop(Tail(settings),
                         Append(acc, SettingsCatalogPolicySetting(r.instance)),
                         r.diags)

\* every wire setting is put in front of the ones before it
convertToAPISettings_Reversed(settingsList, diags) ==
    LET r == convertLoop(settingsList.elems, <<>>, diags)
    IN  IF HasError(diags) THEN [apiSettings |-> <<>>, diags |-> diags]
        ELSE [r EXCEPT !.apiSettings =
                  [i \in 1..Len(r.apiSettings) |-> r.apiSettings[Len(r.apiSettings) + 1 - i]]]

\* data.Settings is a types.List; ElementsAs turns a null list into a nil slice
convertToAPISettings(settingsList, diags) ==
    IF HasError(diags) THEN [apiSettings |-> <<>>, diags |-> diags]
    ELSE convertLoop(settingsList.elems, <<>>, diags)

(***************************************************************************)
(* Decode: parseSimpleSettingValue, parseChildSettings,                    *)
(* convertAPISettingsToModel.                                              *)
(***************************************************************************)
\* a decoder without the integer case: integers fall to the default branch
parseSimpleSettingValue_NoIntegerCase(ssv) ==
    IF ssv.nil THEN [value_type |-> "", value |-> StringNull]
    ELSE IF ssv.ODataType = ODataBooleanValue
         THEN [value_type |-> "boolean", value |-> StringValue(Sprintf_v(ssv.Value))]
         ELSE [value_type |-> "string", value |-> StringValue(Sprintf_v(ssv.Value))]

parseSimpleSettingValue(ssv) ==
    IF ssv.nil THEN [value_type |-> "", value |-> StringNull]
    ELSE CASE ssv.ODataType = ODataStringValue ->
                [value_type |-> "string", value |-> StringValue(Sprintf_v(ssv.Value))]
           [] ssv.ODataType = ODataIntegerValue ->
                [value_type |-> "integer", value |-> StringValue(Sprintf_v(ssv.Value))]
           [] ssv.ODataType = ODataBooleanValue ->
                IF ssv.Value.k # "bool"
                THEN [value_type |-> "boolean", value |-> StringValue(Sprintf_v(ssv.Value))]
                ELSE IF ssv.Value.v = <<"true">>
                     THEN [value_type |-> "boolean", value |-> StringValue(<<"true">>)]
                     ELSE [value_type |-> "boolean", value |-> StringValue(<<"false">>)]
           [] OTHER ->
                [value_type |-> "string", value |-> StringValue(Sprintf_v(ssv.Value))]

RECURSIVE parseChildLoop(_, _)
parseChildLoop(apiChildren, acc) ==
    IF apiChildren = <<>> THEN acc
    ELSE LET instance == Head(apiChildren).SettingInstance
             simple   == parseSimpleSettingValue(instance.SimpleSettingValue)
             rest     == Tail(apiChildren)
         IN  IF instance.nil THEN parseChildLoop(rest, acc)
             ELSE IF ~instance.SimpleSettingValue.nil
                  THEN parseChildLoop(rest,
                           Append(acc, ChildSettingModel(instance.SettingDefinitionId,
                                                         simple.value_type, simple.value)))
             ELSE IF ~instance.ChoiceSettingValue.nil
                  THEN parseChildLoop(rest,
                           Append(acc, ChildSettingModel(instance.SettingDefinitionId, "choice",
                                           StringValue(instance.ChoiceSettingValue.Value))))
             ELSE parseChildLoop(rest, acc)

\* the children are returned last to first
parseChildSettings_Reversed(apiChildren) ==
    LET children == parseChildLoop(apiChildren, <<>>)
    IN  IF Len(children) = 0 THEN ListNull
        ELSE ListValue([i \in 1..Len(children) |-> children[Len(children) + 1 - i]])

parseChildSettings(apiChildren) ==
    LET children == parseChildLoop(apiChildren, <<>>)
    IN  IF Len(children) = 0 THEN ListNull ELSE ListValue(children)

\* a choice or group is kept only when it has children
decodeSetting_SkipsChildless(apiSetting) ==
    LET instance == apiSetting.SettingInstance
        id       == instance.SettingDefinitionId
        simple   == parseSimpleSettingValue(instance.SimpleSettingValue)
        keep(m)  == [skip |-> FALSE, setting |-> m]
        skipped  == [skip |-> TRUE, setting |-> SettingModel("", "", StringNull, ListNull)]
    IN  IF instance.nil THEN skipped
        ELSE IF ~instance.SimpleSettingValue.nil
             THEN keep(SettingModel(id, simple.value_type, simple.value, ListNull))
        ELSE IF ~instance.ChoiceSettingValue.nil /\ Len(instance.ChoiceSettingValue.Children) > 0
             THEN keep(SettingModel(id, "choice",
                           StringValue(instance.ChoiceSettingValue.Value),
                           IF Len(instance.ChoiceSettingValue.Children) > 0
                           THEN parseChildSettings(instance.ChoiceSettingValue.Children)
                           ELSE ListNull))
        ELSE IF Len(instance.SimpleSettingCollectionValue) > 0
             THEN keep(SettingModel(id, "collection",
                           StringValue(Marshal(
                               [i \in 1..Len(instance.SimpleSettingCollectionValue) |->
                                   Sprintf_v(instance.SimpleSettingCollectionValue[i].Value)])),
                           ListNull))
        ELSE IF ~instance.GroupSettingValue.nil /\ Len(instance.GroupSettingValue.Children) > 0
             THEN keep(SettingModel(id, "group", StringNull,
                           IF Len(instance.GroupSettingValue.Children) > 0
                           THEN parseChildSettings(instance.GroupSettingValue.Children)
                           ELSE ListNull))
        ELSE skipped

\* one wire setting decoded: skip = TRUE when the loop "continue"s past it
decodeSetting(apiSetting) ==
    LET instance == apiSetting.SettingInstance
        id       == instance.SettingDefinitionId
        simple   == parseSimpleSettingValue(instance.SimpleSettingValue)
        keep(m)  == [skip |-> FALSE, setting |-> m]
        skipped  == [skip |-> TRUE, setting |-> SettingModel("", "", StringNull, ListNull)]
    IN  IF instance.nil THEN skipped
        ELSE IF ~instance.SimpleSettingValue.nil
             THEN keep(SettingModel(id, simple.value_type, simple.value, ListNull))
        ELSE IF ~instance.ChoiceSettingValue.nil
             THEN keep(SettingModel(id, "choice",
                           StringValue(instance.ChoiceSettingValue.Value),
                           IF Len(instance.ChoiceSettingValue.Children) > 0
                           THEN parseChildSettings(instance.ChoiceSettingValue.Children)
                           ELSE ListNull))
        ELSE IF Len(instance.SimpleSettingCollectionValue) > 0
             THEN keep(SettingModel(id, "collection",
                           StringValue(Marshal(
                               [i \in 1..Len(instance.SimpleSettingCollectionValue) |->
                                   Sprintf_v(instance.SimpleSettingCollectionValue[i].Value)])),
                           ListNull))
        ELSE IF ~instance.GroupSettingValue.nil
             THEN keep(SettingModel(id, "group", StringNull,
                           IF Len(instance.GroupSettingValue.Children) > 0
                           THEN parseChildSettings(instance.GroupSettingValue.Children)
                           ELSE ListNull))
        ELSE skipped

RECURSIVE decodeLoop(_, _)
decodeLoop(apiSettings, acc) ==
    IF apiSettings = <<>> THEN acc
    ELSE LET r == decodeSetting(Head(apiSettings))
         IN  decodeLoop(Tail(apiSettings), IF r.skip THEN acc ELSE Append(acc, r.setting))

\* the diagnostics a decode appends: those of types.ListValueFrom alone, which
\* has none for a slice of well-typed models; a skipped node adds nothing
decodeDiagnostics(apiSettings) == <<>>

\* a simple value of a subtype other than string, integer and boolean makes
\* the whole decode return nothing
convertAPISettingsToModel_AbortsOnUnknown(apiSettings) ==
    LET settings == decodeLoop(apiSettings, <<>>)
        unknown(a) == /\ ~a.SettingInstance.nil /\ ~a.SettingInstance.SimpleSettingValue.nil
                      /\ a.SettingInstance.SimpleSettingValue.ODataType \notin
                            {ODataStringValue, ODataIntegerValue, ODataBooleanValue}
    IN  IF \E i \in 1..Len(apiSettings) : unknown(apiSettings[i]) THEN ListNull
        ELSE IF Len(settings) = 0 THEN ListNull ELSE ListValue(settings)

convertAPISettingsToModel(apiSettings) ==
    LET settings == decodeLoop(apiSettings, <<>>)
    IN  IF Len(settings) = 0 THEN ListNull ELSE ListValue(settings)

(***************************************************************************)
(* The Graph client.  A Go error is its dynamic type and the Graph error   *)
(* code it carries; fmt.Errorf("...: %w", err) yields a *fmt.wrapError,    *)
(* which a type assertion to *GraphError does not match.                   *)
(***************************************************************************)
NilError == [nil |-> TRUE, type |-> "", code |-> ""]
GraphError(code) == [nil |-> FALSE, type |-> "*clients.GraphError", code |-> code]
Errorf(err) == [nil |-> FALSE, type |-> "*fmt.wrapError", code |-> err.code]
ErrorString == [nil |-> FALSE, type |-> "*errors.errorString", code |-> ""]

\* graphErr, ok := err.(*clients.GraphError); ok && graphErr.Code == code
IsGraphErrorCode(err, code) == err.type = "*clients.GraphError" /\ err.code = code

NilRequest == [nil |-> TRUE, method |-> "", path |-> "", policy |-> "", body |-> <<>>]
Request(method, path, policy, body) ==
    [nil |-> FALSE, method |-> method, path |-> path, policy |-> policy, body |-> body]

NilResponse == [nil |-> TRUE, status |-> 0, code |-> "", id |-> "", settings |-> <<>>]
Response(status, code, id, settings) ==
    [nil |-> FALSE, status |-> status, code |-> code, id |-> id, settings |-> settings]

\* doRequest after httpClient.Do: the body is parsed into a GraphResponse, which
\* has the fields @odata.context, @odata.type, @odata.nextLink, value, id, error
doRequest(r) ==
    IF r.status >= 400
    THEN [graphResp |-> [ID |-> ""],
          err |-> IF r.code # "" THEN GraphError(r.code) ELSE ErrorString]
    ELSE [graphResp |-> [ID |-> r.id], err |-> NilError]

\* the request of GetSettingsCatalogPolicy: GET .../configurationPolicies('id')?$expand=settings
\* the policy is asked for by writing an empty setting list to it
GetSettingsCatalogPolicyRequest_AsPut(id) == Request("PUT", "settings", id, <<>>)

GetSettingsCatalogPolicyRequest(id) == Request("GET", "policy", id, <<>>)

\* GetSettingsCatalogPolicy on the response: the policy is rebuilt from
\* json.Marshal(resp) of the GraphResponse, which carries no "settings" member
GetSettingsCatalogPolicy(r) ==
    LET d == doRequest(r)
    IN  IF ~d.err.nil
        THEN [policy |-> [ID |-> "", Settings |-> <<>>], err |-> Errorf(d.err)]
        ELSE [policy |-> [ID |-> d.graphResp.ID, Settings |-> <<>>], err |-> NilError]

\* the body leaves out the last setting
UpdateSettingsCatalogPolicySettingsRequest_DropsLast(policyId, settings) ==
    Request("PUT", "settings", policyId,
            IF settings = <<>> THEN <<>> ELSE SubSeq(settings, 1, Len(settings) - 1))

\* the request of UpdateSettingsCatalogPolicySettings: PUT .../settings {"settings": settings}
UpdateSettingsCatalogPolicySettingsRequest(policyId, settings) ==
    Request("PUT", "settings", policyId, settings)

UpdateSettingsCatalogPolicySettings(r) ==
    LET d == doRequest(r)
    IN  IF ~d.err.nil THEN Errorf(d.err) ELSE NilError

(***************************************************************************)
(* The life cycle: two settings resources on one policy, the service,      *)
(* and a party that edits or deletes the policy outside Terraform.         *)
(* A handler blocks in its one HTTP call, so a call is two steps, the      *)
(* part up to the request and the part after the response, with the        *)
(* service's step in between; calls of different resources interleave.     *)
(***************************************************************************)
Resources == {"r1", "r2"}
Policies == {"p1"}
PolicyOf(r) == "p1"

Absent == [present |-> FALSE, id |-> "", policy_id |-> "", settings |-> ListNull]
Model(id, policyId, settings) ==
    [present |-> TRUE, id |-> id, policy_id |-> policyId, settings |-> settings]

NoCall == [op |-> "", n |-> 0, data |-> Absent]

\* the declared settings the plans are built from
sA == SettingModel("defA", "string", StringValue(<<"a">>), ListValue(<<>>))
sB == SettingModel("defB", "boolean", StringValue(<<"true">>), ListValue(<<>>))
sBadInt == SettingModel("defC", "integer", StringValue(<<"a">>), ListValue(<<>>))
sBadColl == SettingModel("defC", "collection", StringValue(<<"[">>), ListValue(<<>>))
sBadKid ==
    SettingModel("defD", "choice", StringValue(<<"a">>),
        ListValue(<<ChildSettingModel("kidA", "string", StringValue(<<"a">>)),
                    ChildSettingModel("kidB", "integer", StringValue(<<"1", "a">>))>>))

\* the plans: valid lists, and lists whose encoding fails at the first
\* element, at the last element and inside a child
PlanLists == {<<>>, <<sA>>, <<sB>>, <<sA, sB>>, <<sA, sBadInt>>, <<sBadColl, sA>>, <<sBadKid>>}

\* what an edit outside Terraform may leave on the policy
ExternalLists ==
    {<<SettingsCatalogPolicySetting(
         [SettingInstance("defX") EXCEPT
            !.ODataType = ODataSimpleInstance,
            !.SimpleSettingValue = SimpleSettingValue(ODataStringValue, GoString(<<"b">>))]),
       SettingsCatalogPolicySetting(
         [SettingInstance("defY") EXCEPT
            !.ODataType = ODataSimpleInstance,
            !.SimpleSettingValue =
                SimpleSettingValue(ODataIntegerValue,
                                   GoInt64(<<"1", "0", "0", "0", "0", "0", "0">>))])>>}

Last(q) == q[Len(q)]

LifeInit ==
    /\ remote = [p \in Policies |-> [exists |-> TRUE, settings |-> <<>>]]
    /\ tfstate = [r \in Resources |-> Absent]
    /\ pc = [r \in Resources |-> "idle"]
    /\ cur = [r \in Resources |-> NoCall]
    /\ req = [r \in Resources |-> NilRequest]
    /\ resp = [r \in Resources |-> NilResponse]
    /\ sent = <<>>
    /\ done = [r \in Resources |-> <<>>]
    /\ applied = <<>>
    /\ nops = 0

\* the handler returns: its outcome is recorded and the resource is idle again
Finished(r, call, error, state) ==
    /\ done' = [done EXCEPT ![r] = Append(@, [op |-> call.op, n |-> call.n,
                                               settings |-> call.data.settings,
                                               error |-> error])]
    /\ tfstate' = [tfstate EXCEPT ![r] = state]
    /\ pc' = [pc EXCEPT ![r] = "idle"]
    /\ cur' = [cur EXCEPT ![r] = NoCall]
    /\ req' = [req EXCEPT ![r] = NilRequest]
    /\ resp' = [resp EXCEPT ![r] = NilResponse]
    /\ UNCHANGED codecVars

\* the handler sends its request and blocks
Send(r, call, q) ==
    /\ sent' = Append(sent, [n |-> call.n, by |-> r, op |-> call.op, request |-> q])
    /\ req' = [req EXCEPT ![r] = q]
    /\ cur' = [cur EXCEPT ![r] = call]
    /\ pc' = [pc EXCEPT ![r] = "waiting"]
    /\ UNCHANGED <<tfstate, done, resp>>
    /\ UNCHANGED codecVars

\* the list that is encoded and sent is the one of the prior state
WriteCall_EncodesState(r, call) ==
    LET enc == convertToAPISettings(tfstate[r].settings, <<>>)
    IN  /\ nops' = nops + 1
        /\ UNCHANGED <<remote, applied>>
        /\ IF HasError(enc.diags)
           THEN Finished(r, call, TRUE, tfstate[r]) /\ UNCHANGED sent
           ELSE Send(r, call,
                     UpdateSettingsCatalogPolicySettingsRequest(call.data.policy_id,
                                                                enc.apiSettings))

\* Create and Update up to the PUT: encode the plan, give up on any error
WriteCall(r, call) ==
    LET enc == convertToAPISettings(call.data.settings, <<>>)
    IN  /\ nops' = nops + 1
        /\ UNCHANGED <<remote, applied>>
        /\ IF HasError(enc.diags)
           THEN Finished(r, call, TRUE, tfstate[r]) /\ UNCHANGED sent
           ELSE Send(r, call,
                     UpdateSettingsCatalogPolicySettingsRequest(call.data.policy_id,
                                                                enc.apiSettings))

\* a Create whose list does not encode saves the planned list all the same
Create_SavesPlanOnFailure(r, plan) ==
    LET call == [op |-> "Create", n |-> nops + 1,
                 data |-> Model("", PolicyOf(r), ListValue(plan))]
        enc  == convertToAPISettings(call.data.settings, <<>>)
    IN  /\ pc[r] = "idle" /\ ~tfstate[r].present /\ nops < MaxOps
        /\ nops' = nops + 1
        /\ UNCHANGED <<remote, applied>>
        /\ IF HasError(enc.diags)
           THEN Finished(r, call, TRUE, call.data) /\ UNCHANGED sent
           ELSE Send(r, call,
                     UpdateSettingsCatalogPolicySettingsRequest(call.data.policy_id,
                                                                enc.apiSettings))

Create(r, plan) ==
    /\ pc[r] = "idle" /\ ~tfstate[r].present /\ nops < MaxOps
    /\ WriteCall(r, [op |-> "Create", n |-> nops + 1,
                     data |-> Model("", PolicyOf(r), ListValue(plan))])

\* the id of the new resource is left as planned, not set to the policy id
CreateReturn_KeepsPlannedId(r) ==
    /\ pc[r] = "waiting" /\ cur[r].op = "Create" /\ ~resp[r].nil
    /\ LET err  == UpdateSettingsCatalogPolicySettings(resp[r])
           data == cur[r].data
       IN  IF ~err.nil
           THEN Finished(r, cur[r], TRUE, tfstate[r])
           ELSE Finished(r, cur[r], FALSE, data)
    /\ UNCHANGED <<remote, sent, applied, nops>>

CreateReturn(r) ==
    /\ pc[r] = "waiting" /\ cur[r].op = "Create" /\ ~resp[r].nil
    /\ LET err  == UpdateSettingsCatalogPolicySettings(resp[r])
           data == cur[r].data
       IN  IF ~err.nil
           THEN Finished(r, cur[r], TRUE, tfstate[r])
           ELSE Finished(r, cur[r], FALSE, [data EXCEPT !.id = data.policy_id])
    /\ UNCHANGED <<remote, sent, applied, nops>>

\* the plan of an Update keeps id (UseStateForUnknown) and policy_id (RequiresReplace)
Update(r, plan) ==
    /\ pc[r] = "idle" /\ tfstate[r].present /\ nops < MaxOps
    /\ ListValue(plan) # tfstate[r].settings
    /\ WriteCall(r, [op |-> "Update", n |-> nops + 1,
                     data |-> Model(tfstate[r].id, tfstate[r].policy_id, ListValue(plan))])

\* an Update whose PUT failed saves the planned list all the same
UpdateReturn_SavesPlanOnFailure(r) ==
    /\ pc[r] = "waiting" /\ cur[r].op = "Update" /\ ~resp[r].nil
    /\ LET err == UpdateSettingsCatalogPolicySettings(resp[r])
       IN  IF ~err.nil
           THEN Finished(r, cur[r], TRUE, cur[r].data)
           ELSE Finished(r, cur[r], FALSE, cur[r].data)
    /\ UNCHANGED <<remote, sent, applied, nops>>

UpdateReturn(r) ==
    /\ pc[r] = "waiting" /\ cur[r].op = "Update" /\ ~resp[r].nil
    /\ LET err == UpdateSettingsCatalogPolicySettings(resp[r])
       IN  IF ~err.nil
           THEN Finished(r, cur[r], TRUE, tfstate[r])
           ELSE Finished(r, cur[r], FALSE, cur[r].data)
    /\ UNCHANGED <<remote, sent, applied, nops>>

Read(r) ==
    /\ pc[r] = "idle" /\ tfstate[r].present /\ nops < MaxOps
    /\ nops' = nops + 1
    /\ Send(r, [op |-> "Read", n |-> nops + 1, data |-> tfstate[r]],
            GetSettingsCatalogPolicyRequest(tfstate[r].policy_id))
    /\ UNCHANGED <<remote, applied>>

\* a policy without settings leaves the resource in state with an empty list
ReadReturn_KeepsEmptyList(r) ==
    /\ pc[r] = "waiting" /\ cur[r].op = "Read" /\ ~resp[r].nil
    /\ LET got  == GetSettingsCatalogPolicy(resp[r])
           data == cur[r].data
       IN  IF ~got.err.nil
           THEN IF IsGraphErrorCode(got.err, "NotFound")
                THEN Finished(r, cur[r], FALSE, Absent)
                ELSE Finished(r, cur[r], TRUE, tfstate[r])
           ELSE Finished(r, cur[r], FALSE,
                         [data EXCEPT !.settings =
                              convertAPISettingsToModel(got.policy.Settings)])
    /\ UNCHANGED <<remote, sent, applied, nops>>

ReadReturn(r) ==
    /\ pc[r] = "waiting" /\ cur[r].op = "Read" /\ ~resp[r].nil
    /\ LET got  == GetSettingsCatalogPolicy(resp[r])
           data == cur[r].data
       IN  IF ~got.err.nil
           THEN IF IsGraphErrorCode(got.err, "NotFound")
                THEN Finished(r, cur[r], FALSE, Absent)
                ELSE Finished(r, cur[r], TRUE, tfstate[r])
           ELSE IF Len(got.policy.Settings) = 0
                THEN Finished(r, cur[r], FALSE, Absent)
                ELSE Finished(r, cur[r], FALSE,
                         [data EXCEPT !.settings =
                              convertAPISettingsToModel(got.policy.Settings)])
    /\ UNCHANGED <<remote, sent, applied, nops>>

\* the policy object itself is deleted (DELETE .../configurationPolicies('id'))
Delete_RemovesPolicy(r) ==
    /\ pc[r] = "idle" /\ tfstate[r].present /\ nops < MaxOps
    /\ nops' = nops + 1
    /\ Send(r, [op |-> "Delete", n |-> nops + 1, data |-> tfstate[r]],
            Request("DELETE", "policy", tfstate[r].policy_id, <<>>))
    /\ UNCHANGED <<remote, applied>>

Delete(r) ==
    /\ pc[r] = "idle" /\ tfstate[r].present /\ nops < MaxOps
    /\ nops' = nops + 1
    /\ Send(r, [op |-> "Delete", n |-> nops + 1, data |-> tfstate[r]],
            UpdateSettingsCatalogPolicySettingsRequest(tfstate[r].policy_id, <<>>))
    /\ UNCHANGED <<remote, applied>>

\* a Delete that returns without an error diagnostic removes the state
DeleteReturn(r) ==
    /\ pc[r] = "waiting" /\ cur[r].op = "Delete" /\ ~resp[r].nil
    /\ LET err == UpdateSettingsCatalogPolicySettings(resp[r])
       IN  IF ~err.nil
           THEN IF IsGraphErrorCode(err, "NotFound")
                THEN Finished(r, cur[r], FALSE, Absent)
                ELSE Finished(r, cur[r], TRUE, tfstate[r])
           ELSE Finished(r, cur[r], FALSE, Absent)
    /\ UNCHANGED <<remote, sent, applied, nops>>

\* ImportState sets id and policy_id to the imported ID, and nothing else
ImportState(r, id) ==
    /\ pc[r] = "idle" /\ ~tfstate[r].present /\ nops < MaxOps
    /\ nops' = nops + 1
    /\ Finished(r, [op |-> "ImportState", n |-> nops + 1, data |-> Model(id, id, ListNull)],
                FALSE, Model(id, id, ListNull))
    /\ UNCHANGED <<remote, sent, applied>>

(***************************************************************************)
(* The service: it answers the request in flight of one handler.  A        *)
(* policy that is gone answers 404 NotFound; otherwise the request is      *)
(* carried out, or fails with a 500 and changes nothing.  A PUT on the     *)
(* settings replaces the whole setting list.                               *)
(***************************************************************************)
Outcomes == {"ok", "fail"}

Serve(r) ==
    /\ pc[r] = "waiting" /\ ~req[r].nil /\ resp[r].nil
    /\ \E outcome \in Outcomes :
         LET q == req[r]
             p == q.policy
         IN  IF ~remote[p].exists
             THEN /\ resp' = [resp EXCEPT ![r] = Response(404, "NotFound", "", <<>>)]
                  /\ UNCHANGED <<remote, applied>>
             ELSE IF outcome = "fail"
             THEN /\ resp' = [resp EXCEPT ![r] = Response(500, "InternalServerError", "", <<>>)]
                  /\ UNCHANGED <<remote, applied>>
             ELSE IF q.method = "GET"
             THEN /\ resp' = [resp EXCEPT ![r] = Response(200, "", p, remote[p].settings)]
                  /\ UNCHANGED <<remote, applied>>
             ELSE /\ resp' = [resp EXCEPT ![r] = Response(200, "", p, <<>>)]
                  /\ remote' = [remote EXCEPT ![p] =
                        IF q.method = "PUT" /\ q.path = "settings"
                        THEN [@ EXCEPT !.settings = q.body]
                        ELSE IF q.method = "DELETE" /\ q.path = "policy"
                        THEN [exists |-> FALSE, settings |-> <<>>]
                        ELSE @]
                  /\ applied' = Append(applied, [n |-> cur[r].n, by |-> r, op |-> cur[r].op,
                                                 list |-> cur[r].data.settings])
    /\ req' = [req EXCEPT ![r] = NilRequest]
    /\ UNCHANGED <<tfstate, pc, cur, sent, done, nops>>
    /\ UNCHANGED codecVars

ExternalWrite(p, w) ==
    /\ remote[p].exists /\ nops < MaxOps
    /\ remote' = [remote EXCEPT ![p].settings = w]
    /\ applied' = Append(applied, [n |-> nops + 1, by |-> "external", op |-> "External",
                                   list |-> ListNull])
    /\ nops' = nops + 1
    /\ UNCHANGED <<tfstate, pc, cur, req, resp, sent, done>>
    /\ UNCHANGED codecVars

ExternalDelete(p) ==
    /\ remote[p].exists /\ nops < MaxOps
    /\ remote' = [remote EXCEPT ![p] = [exists |-> FALSE, settings |-> <<>>]]
    /\ nops' = nops + 1
    /\ UNCHANGED <<tfstate, pc, cur, req, resp, sent, done, applied>>
    /\ UNCHANGED codecVars

(***************************************************************************)
(* A codec run: encode a declared list, decode the result, and do both     *)
(* once more on what was decoded.                                          *)
(***************************************************************************)
NoEnc == [apiSettings |-> <<>>, diags |-> <<>>]

CodecIdle ==
    /\ cIn = ListNull /\ cStage = "off"
    /\ cEnc = NoEnc /\ cDec = ListNull /\ cEnc2 = NoEnc /\ cDec2 = ListNull

Init == LifeInit /\ CodecIdle

Next ==
    \/ \E r \in Resources, plan \in PlanLists : Create(r, plan)
    \/ \E r \in Resources : CreateReturn(r)
    \/ \E r \in Resources, plan \in PlanLists : Update(r, plan)
    \/ \E r \in Resources : UpdateReturn(r)
    \/ \E r \in Resources : Read(r)
    \/ \E r \in Resources : ReadReturn(r)
    \/ \E r \in Resources : Delete(r)
    \/ \E r \in Resources : DeleteReturn(r)
    \/ \E r \in Resources, id \in Policies : ImportState(r, id)
    \/ \E r \in Resources : Serve(r)
    \/ \E p \in Policies, w \in ExternalLists : ExternalWrite(p, w)
    \/ \E p \in Policies : ExternalDelete(p)

Spec == Init /\ [][Next]_vars

(***************************************************************************)
(* The inputs of a codec run.                                              *)
(***************************************************************************)
ScalarLexemes == {"0", "1", "+", "-", "a"}

BigTexts == {MaxInt64Mag, MinInt64Mag, <<"-">> \o MinInt64Mag,
             <<"1", "0", "0", "0", "0", "0", "0">>}

ScalarTexts ==
    SeqsUpTo(ScalarLexemes, MaxLen) \cup BigTexts
        \cup {<<"true">>, <<"false">>, <<"yes">>, <<"TRUE">>}

\* JSON array texts: the elements in order, written compactly or with blanks
ElemTexts == {<<Quote, "a", Quote>>, <<Quote, "b", Quote>>, <<Quote, "<", Quote>>,
              <<"1">>, <<"null">>}

ArrayText(elems, sep) == <<"[">> \o Join(elems, sep) \o <<"]">>

ArrayTexts ==
    {ArrayText(es, sep) : es \in SeqsUpTo(ElemTexts, MaxColl), sep \in {<<",">>, <<",", " ">>}}

OtherTexts == {<<"null">>, <<"{", "}">>, <<Quote, "a", Quote>>, <<"[">>,
               <<"[", "1", ",", "]">>, <<" ", "[", "1", "]", " ">>,
               <<"[", "[", "1", ",", "null", "]", ",", "{", "}", "]">>}

Texts == ScalarTexts \cup ArrayTexts \cup OtherTexts

Values == {StringNull} \cup {StringValue(t) : t \in Texts}

Kinds == {"string", "integer", "boolean", "choice", "collection", "group"}
ChildKinds == {"string", "integer", "boolean", "choice"}

ChildPool ==
    {ChildSettingModel("kidA", "string", StringValue(<<"a">>)),
     ChildSettingModel("kidB", "integer", StringValue(<<"+", "1">>)),
     ChildSettingModel("kidB", "integer", StringValue(<<"1", "a">>)),
     ChildSettingModel("kidC", "boolean", StringValue(<<"true">>)),
     ChildSettingModel("kidC", "boolean", StringValue(<<"yes">>)),
     ChildSettingModel("kidD", "choice", StringValue(<<"a">>))}

ChildLists == {ListNull} \cup {ListValue(cs) : cs \in SeqsUpTo(ChildPool, MaxChildren)}

\* every kind with every value, and the composites with every child list
RichSettings ==
    {SettingModel("defA", k, v, cl) : k \in Kinds, v \in Values, cl \in {ListNull, ListValue(<<>>)}}
    \cup {SettingModel("defA", k, v, cl) :
            k \in {"choice", "group"}, v \in {StringNull, StringValue(<<"a">>)}, cl \in ChildLists}

CoreSettings ==
    {sA, sB, sBadInt, sBadKid,
     SettingModel("defE", "integer", StringValue(<<"+", "1">>), ListValue(<<>>)),
     SettingModel("defF", "collection", StringValue(<<"[", "]">>), ListValue(<<>>)),
     SettingModel("defG", "group", StringNull,
                  ListValue(<<ChildSettingModel("kidC", "boolean", StringValue(<<"yes">>))>>))}

\* a choice and a group with one child, of every child kind with every value
KidSettings ==
    {SettingModel("defA", k, StringValue(<<"a">>),
                  ListValue(<<ChildSettingModel("kidA", ck, v)>>)) :
        k \in {"choice", "group"}, ck \in ChildKinds, v \in Values}

CodecInputs ==
    {ListValue(<<s>>) : s \in RichSettings \cup KidSettings}
        \cup {ListValue(l) : l \in SeqsUpTo(CoreSettings, MaxList)}

CodecInit ==
    /\ cIn \in CodecInputs /\ cStage = "start"
    /\ cEnc = NoEnc /\ cDec = ListNull /\ cEnc2 = NoEnc /\ cDec2 = ListNull

CodecEncode ==
    /\ cStage = "start"
    /\ cEnc' = convertToAPISettings(cIn, <<>>)
    /\ cStage' = IF HasError(cEnc'.diags) THEN "failed" ELSE "encoded"
    /\ UNCHANGED <<cIn, cDec, cEnc2, cDec2>>
    /\ UNCHANGED lifeVars

CodecDecode ==
    /\ cStage = "encoded"
    /\ cDec' = convertAPISettingsToModel(cEnc.apiSettings)
    /\ cStage' = "decoded"
    /\ UNCHANGED <<cIn, cEnc, cEnc2, cDec2>>
    /\ UNCHANGED lifeVars

CodecEncodeAgain ==
    /\ cStage = "decoded"
    /\ cEnc2' = convertToAPISettings(cDec, <<>>)
    /\ cStage' = IF HasError(cEnc2'.diags) THEN "failed" ELSE "encoded2"
    /\ UNCHANGED <<cIn, cEnc, cDec, cDec2>>
    /\ UNCHANGED lifeVars

CodecDecodeAgain ==
    /\ cStage = "encoded2"
    /\ cDec2' = convertAPISettingsToModel(cEnc2.apiSettings)
    /\ cStage' = "decoded2"
    /\ UNCHANGED <<cIn, cEnc, cDec, cEnc2>>
    /\ UNCHANGED lifeVars

CodecNext ==
    \/ CodecEncode
    \/ CodecDecode
    \/ CodecEncodeAgain
    \/ CodecDecodeAgain

InitCodec == LifeInit /\ CodecInit

SpecCodec == InitCodec /\ [][CodecNext]_vars

(***************************************************************************)
(* Claims about the codec.                                                 *)
(***************************************************************************)
\* the codec run has decoded the encoding of a single declared setting
DecodedOne == cStage = "decoded" /\ Len(cIn.elems) = 1

\* the text is a JSON array
IsArrayText(t) ==
    LET r == ScanValue(t, SkipWS(t, 1))
    IN  r.ok /\ SkipWS(t, r.next) > Len(t) /\ r.val.k = "slice"

\* valid for its kind, in the words of the claim: an integer is any text
\* that parses as an int64, a collection any JSON array text
ValidForKind(s) ==
    CASE s.value_type = "integer"    -> ~s.value.null /\ ParseInt(s.value.s).err = ""
      [] s.value_type = "collection" -> ~s.value.null /\ IsArrayText(s.value.s)
      [] s.value_type = "boolean"    -> s.value \in {StringValue(<<"true">>), StringValue(<<"false">>)}
      [] s.value_type = "group"      -> s.value.null
      [] OTHER                       -> ~s.value.null

\* the decoded list is one setting with the id, the kind and the value of s
SameSetting(list, s) ==
    /\ ~list.null /\ Len(list.elems) = 1
    /\ list.elems[1].definition_id = s.definition_id
    /\ list.elems[1].value_type = s.value_type
    /\ list.elems[1].value = s.value

\* C1 (as claimed): every setting whose value is valid for its kind (integer:
\* any text that parses as an int64, collection: any JSON array text) decodes
\* from its own encoding with the same definition_id, value_type and value.
C1_RoundTripOfValid ==
    (DecodedOne /\ ValidForKind(cIn.elems[1])) => SameSetting(cDec, cIn.elems[1])

\* the value is the text the decoder itself writes for the kind: an integer in
\* canonical decimal form, a collection as the compact JSON text of a
\* non-empty array of strings
CanonicalForKind(s) ==
    CASE s.value_type = "integer" ->
             ~s.value.null /\ ParseInt(s.value.s).err = "" /\ ParseInt(s.value.s).v = s.value.s
      [] s.value_type = "collection" ->
             LET u == Unmarshal(s.value.s)
             IN  /\ ~s.value.null /\ IsArrayText(s.value.s) /\ Len(u.values) > 0
                 /\ \A i \in 1..Len(u.values) : u.values[i].k = "string"
                 /\ Marshal([i \in 1..Len(u.values) |-> u.values[i].v]) = s.value.s
      [] OTHER -> ValidForKind(s)

\* C1 (amended): a setting whose value is canonical for its kind (integer: the
\* canonical decimal text of an int64, without "+", leading zeros or "-0";
\* collection: the compact JSON text of a non-empty array of strings) decodes
\* from its own encoding with the same definition_id, value_type and value.
C1_RoundTripOfCanonical ==
    (DecodedOne /\ CanonicalForKind(cIn.elems[1])) => SameSetting(cDec, cIn.elems[1])

\* C1 witness: a canonical negative integer has been encoded and decoded
C1_Witness ==
    /\ DecodedOne /\ CanonicalForKind(cIn.elems[1])
    /\ cIn.elems[1].value_type = "integer" /\ cIn.elems[1].value.s = <<"-", "1">>
    /\ cDec.elems[1].value.s = <<"-", "1">>

(***************************************************************************)
(* Claims about the life cycle.                                            *)
(***************************************************************************)
Range(q) == {q[i] : i \in 1..Len(q)}

EncodingOf(list) == convertToAPISettings(list, <<>>).apiSettings

\* the requests a handler call has sent
RequestsOf(n) == SelectSeq(sent, LAMBDA e : e.n = n)

\* the last two finished calls of r
LastCall(r) == done[r][Len(done[r])]
PrevCall(r) == done[r][Len(done[r]) - 1]

Succeeded(call, op) == call.op = op /\ ~call.error

DefinitionIds(list) == {list.elems[i].definition_id : i \in 1..Len(list.elems)}

\* C2: after a successful Create of a (non-empty) list L with no other write to
\* the policy, a following Read keeps the resource in state with settings equal
\* to L element by element.
C2_ReadAfterCreateKeepsList ==
    \A r \in Resources :
        (/\ Len(done[r]) >= 2
         /\ Succeeded(PrevCall(r), "Create") /\ Len(PrevCall(r).settings.elems) > 0
         /\ LastCall(r).op = "Read"
         /\ Len(applied) = 1 /\ applied[1].n = PrevCall(r).n
         /\ remote[PolicyOf(r)].exists)
        => (tfstate[r].present /\ tfstate[r].settings = PrevCall(r).settings)

\* the one PUT of the whole encoded list that a write call of r is to send
ThePut(r, call) ==
    <<[n |-> call.n, by |-> r, op |-> call.op,
       request |-> Request("PUT", "settings", PolicyOf(r), EncodingOf(call.settings))]>>

\* C3: a Create or Update whose list encodes sends exactly one request, a PUT of
\* the complete encoded list; after a successful Update with L2 that follows a
\* Create with L1, and no later write, the remote list is the encoding of L2 and
\* holds no element of L1 that L2 does not contain.
C3_OnePutOfWholeList ==
    \A r \in Resources :
        /\ \A i \in 1..Len(done[r]) :
             (/\ done[r][i].op \in {"Create", "Update"}
              /\ ~HasError(convertToAPISettings(done[r][i].settings, <<>>).diags))
             => RequestsOf(done[r][i].n) = ThePut(r, done[r][i])
        /\ (/\ Len(done[r]) >= 2
            /\ Succeeded(PrevCall(r), "Create") /\ Succeeded(LastCall(r), "Update")
            /\ Last(applied).n = LastCall(r).n
            /\ remote[PolicyOf(r)].exists)
           => /\ remote[PolicyOf(r)].settings = EncodingOf(LastCall(r).settings)
              /\ \A e \in Range(EncodingOf(PrevCall(r).settings)) :
                    e \in Range(remote[PolicyOf(r)].settings)
                        => e \in Range(EncodingOf(LastCall(r).settings))

\* C3 witness: Create of two settings, then Update to the second one alone, and
\* the first setting is gone from the remote list
C3_Witness ==
    \E r \in Resources :
        /\ Len(done[r]) >= 2
        /\ Succeeded(PrevCall(r), "Create") /\ PrevCall(r).settings = ListValue(<<sA, sB>>)
        /\ Succeeded(LastCall(r), "Update") /\ LastCall(r).settings = ListValue(<<sB>>)
        /\ Last(applied).n = LastCall(r).n
        /\ remote[PolicyOf(r)].settings = EncodingOf(ListValue(<<sB>>))

\* both resources were created successfully, with disjoint non-empty lists, on
\* the same policy, and nothing else wrote to it
BothCreated(r, o) ==
    /\ r # o /\ PolicyOf(r) = PolicyOf(o)
    /\ Len(done[r]) = 1 /\ Succeeded(LastCall(r), "Create")
    /\ Len(done[o]) = 1 /\ Succeeded(LastCall(o), "Create")
    /\ DefinitionIds(LastCall(r).settings) # {} /\ DefinitionIds(LastCall(o).settings) # {}
    /\ DefinitionIds(LastCall(r).settings) \cap DefinitionIds(LastCall(o).settings) = {}
    /\ Len(applied) = 2 /\ remote[PolicyOf(r)].exists

\* C4: when two resources with disjoint lists A and B on the same policy are
\* both created, in either order, the remote policy holds every setting of A
\* and every setting of B.
C4_BothModulesOnRemote ==
    \A r, o \in Resources :
        BothCreated(r, o)
        => /\ Range(EncodingOf(LastCall(r).settings)) \subseteq Range(remote[PolicyOf(r)].settings)
           /\ Range(EncodingOf(LastCall(o).settings)) \subseteq Range(remote[PolicyOf(r)].settings)

\* C5: destroying one resource on a policy that another resource also manages
\* removes only its own settings: the other resource's settings, on the
\* remote policy before the Delete, are still there after it.
C5_DeleteKeepsOthers ==
    \A r, o \in Resources :
        (/\ r # o /\ PolicyOf(r) = PolicyOf(o)
         /\ Len(done[r]) = 2 /\ Succeeded(PrevCall(r), "Create") /\ Succeeded(LastCall(r), "Delete")
         /\ Len(done[o]) = 1 /\ Succeeded(LastCall(o), "Create")
         /\ DefinitionIds(LastCall(o).settings) # {}
         /\ DefinitionIds(PrevCall(r).settings) \cap DefinitionIds(LastCall(o).settings) = {}
         /\ Len(applied) = 3 /\ applied[1].n = PrevCall(r).n
         /\ applied[2].n = LastCall(o).n /\ applied[3].n = LastCall(r).n
         /\ remote[PolicyOf(r)].exists)
        => Range(EncodingOf(LastCall(o).settings)) \subseteq Range(remote[PolicyOf(r)].settings)

\* C6: whatever the interleaving of the writers, the remote list is exactly
\* the list of the write that the service applied last.
C6_LastWriteWins ==
    \A p \in Policies :
        (applied # <<>> /\ Last(applied).by \in Resources /\ remote[p].exists)
        => remote[p].settings = IF Last(applied).op = "Delete" THEN <<>>
                                ELSE EncodingOf(Last(applied).list)

\* C6 witness: two writes with different lists were in flight together and the
\* service applied them in the order opposite to the one they were sent in
C6_Witness ==
    /\ Len(sent) = 2 /\ Len(applied) = 2
    /\ sent[1].request.method = "PUT" /\ sent[2].request.method = "PUT"
    /\ sent[1].request.body # sent[2].request.body
    /\ applied[1].n = sent[2].n /\ applied[2].n = sent[1].n
    /\ remote[sent[1].request.policy].settings = sent[1].request.body

\* the step is one of resource r's calls (handler or service side)
StepOf(r) == pc'[r] # pc[r] \/ req'[r] # req[r] \/ resp'[r] # resp[r] \/ done'[r] # done[r]

Writes(q) == SelectSeq(q, LAMBDA e : e.request.method # "GET")

\* C7: no step of a Read, whatever the remote state and the outcome, sends a
\* write request or changes the remote policy.
C7_ReadNeverWrites ==
    [][\A r \in Resources :
         (StepOf(r) /\ (cur[r].op = "Read" \/ cur'[r].op = "Read"))
         => (remote' = remote /\ applied' = applied /\ Writes(sent') = Writes(sent))]_vars

\* C7 witness: a Read has returned while the policy holds settings
C7_Witness ==
    \E r \in Resources :
        /\ done[r] # <<>> /\ LastCall(r).op = "Read" /\ ~LastCall(r).error
        /\ remote[PolicyOf(r)].exists /\ remote[PolicyOf(r)].settings # <<>>

\* C8: a Delete sends exactly one request, a PUT of the empty setting list, and
\* no step of it removes the policy; after a successful Delete the resource is
\* absent from state and, with no later write, the policy exists with an empty
\* setting list.
C8_DeleteClearsSettings ==
    /\ [](\A r \in Resources :
            /\ \A i \in 1..Len(done[r]) :
                 done[r][i].op = "Delete"
                 => RequestsOf(done[r][i].n) =
                        <<[n |-> done[r][i].n, by |-> r, op |-> "Delete",
                           request |-> Request("PUT", "settings", PolicyOf(r), <<>>)]>>
            /\ (done[r] # <<>> /\ Succeeded(LastCall(r), "Delete"))
               => /\ ~tfstate[r].present
                  /\ (Last(applied).n = LastCall(r).n /\ remote[PolicyOf(r)].exists)
                     => remote[PolicyOf(r)].settings = <<>>)
    /\ [][\A r \in Resources :
            (StepOf(r) /\ (cur[r].op = "Delete" \/ cur'[r].op = "Delete"))
            => \A p \in Policies : remote'[p].exists = remote[p].exists]_vars

\* C8 witness: a Delete has succeeded on a policy that held settings, and the
\* policy is still there, empty
C8_Witness ==
    \E r \in Resources :
        /\ Len(done[r]) >= 2 /\ Succeeded(LastCall(r), "Delete")
        /\ Succeeded(PrevCall(r), "Create") /\ PrevCall(r).settings = ListValue(<<sA, sB>>)
        /\ Last(applied).n = LastCall(r).n
        /\ remote[PolicyOf(r)].exists /\ remote[PolicyOf(r)].settings = <<>>
        /\ ~tfstate[r].present

\* a declared list whose encoding has to fail: an integer, at top level or in
\* a child of a choice or group, that strconv.ParseInt rejects, or a
\* collection that is not a JSON array
BadInteger(v) == ParseInt(ValueString(v)).err # ""

BadDeclared(plan) ==
    \E i \in 1..Len(plan) :
        \/ plan[i].value_type = "integer" /\ BadInteger(plan[i].value)
        \/ plan[i].value_type = "collection" /\ Unmarshal(ValueString(plan[i].value)).err # ""
        \/ /\ plan[i].value_type \in {"choice", "group"} /\ ~plan[i].children.null
           /\ \E j \in 1..Len(plan[i].children.elems) :
                 /\ plan[i].children.elems[j].value_type = "integer"
                 /\ BadInteger(plan[i].children.elems[j].value)

\* C10: a Create or Update whose list has an encode failure at any position,
\* at top level or in a child, sends no request and leaves the state and the
\* remote policy as they were, and returns with an error.
C10_EncodeFailureWritesNothing ==
    [][\A r \in Resources, plan \in PlanLists :
         ((Create(r, plan) \/ Update(r, plan)) /\ BadDeclared(plan))
         => /\ sent' = sent /\ tfstate' = tfstate /\ remote' = remote /\ applied' = applied
            /\ pc'[r] = "idle" /\ Last(done'[r]).error]_vars

\* C10 witness: an Update whose list fails at its last element, after a valid
\* first one, has returned with an error and sent nothing; the state still
\* holds the list of the Create before it
C10_Witness ==
    \E r \in Resources :
        /\ Len(done[r]) >= 2 /\ Succeeded(PrevCall(r), "Create")
        /\ LastCall(r).op = "Update" /\ LastCall(r).error
        /\ LastCall(r).settings = ListValue(<<sA, sBadInt>>)
        /\ RequestsOf(LastCall(r).n) = <<>>
        /\ tfstate[r].present /\ tfstate[r].settings = PrevCall(r).settings

(***************************************************************************)
(* Claims about a codec run, second pass.                                  *)
(***************************************************************************)

\* C9: for a list D that decoding an encoded list has produced, encoding D
\* succeeds and decoding the result gives D again, node for node.
C9_DecodeEncodeIdempotent ==
    /\ cStage = "failed" => HasError(cEnc.diags)
    /\ cStage = "decoded2" => cDec2 = cDec

\* C9 witness: a run whose first pass changed the declared list (an integer
\* made canonical, an empty collection dropped) has finished its second pass
C9_Witness ==
    /\ cStage = "decoded2" /\ ~cDec.null
    /\ cDec # cIn /\ Len(cDec.elems) < Len(cIn.elems)
    /\ \E i \in 1..Len(cDec.elems) : cDec.elems[i].value_type = "integer"

(***************************************************************************)
(* Claims about the encoding of one setting and of its children.           *)
(***************************************************************************)
\* the run has encoded (or failed to encode) a list of one setting
EncodedOne == cStage \in {"encoded", "failed"} /\ Len(cIn.elems) = 1

TheSetting == cIn.elems[1]
TheInstance == cEnc.apiSettings[1].SettingInstance

\* the children of the wire node of a choice or group
WireChildren(instance) ==
    IF ~instance.ChoiceSettingValue.nil THEN instance.ChoiceSettingValue.Children
    ELSE instance.GroupSettingValue.Children

\* the text is a base-10 signed 64-bit integer: an optional sign, one or more
\* digits, and a number between -2^63 and 2^63 - 1
IsInt64Text(t) ==
    LET body == IF t # <<>> /\ t[1] \in {"+", "-"} THEN Tail(t) ELSE t
    IN  /\ IsDigits(body)
        /\ MagLE(StripZeros(body), IF t[1] = "-" THEN MinInt64Mag ELSE MaxInt64Mag)

\* c is the canonical decimal text of the number that t writes
SameNumber(t, c) ==
    LET tbody == StripZeros(IF t[1] \in {"+", "-"} THEN Tail(t) ELSE t)
        cbody == IF c[1] = "-" THEN Tail(c) ELSE c
    IN  /\ IsDigits(cbody) /\ StripZeros(cbody) = cbody /\ c # <<"-", "0">>
        /\ cbody = tbody
        /\ (c[1] = "-") <=> (t[1] = "-" /\ tbody # <<"0">>)

IsWireInteger(ssv, t) ==
    /\ ~ssv.nil /\ ssv.ODataType = ODataIntegerValue
    /\ ssv.Value.k = "int64" /\ SameNumber(t, ssv.Value.v)

IntegerErrors(diags) ==
    SelectSeq(diags, LAMBDA e : e.summary = "Invalid Integer Value")

\* C11: an integer setting, and an integer child of a choice or group, fails
\* to encode with an integer error exactly when its value is not the text of
\* a base-10 signed 64-bit integer, and then there is no wire node for it;
\* otherwise its wire node carries the integer the text writes.
C11_IntegerCoercion ==
    EncodedOne =>
        /\ (TheSetting.value_type = "integer")
           => IF IsInt64Text(ValueString(TheSetting.value))
              THEN /\ ~HasError(cEnc.diags) /\ ~TheInstance.nil
                   /\ IsWireInteger(TheInstance.SimpleSettingValue, ValueString(TheSetting.value))
              ELSE /\ Len(IntegerErrors(cEnc.diags)) = 1 /\ TheInstance.nil
        /\ (TheSetting.value_type \in {"choice", "group"} /\ Len(TheSetting.children.elems) = 1
              /\ TheSetting.children.elems[1].value_type = "integer")
           => LET kid == TheSetting.children.elems[1]
              IN  IF IsInt64Text(ValueString(kid.value))
                  THEN /\ ~HasError(cEnc.diags) /\ Len(WireChildren(TheInstance)) = 1
                       /\ IsWireInteger(WireChildren(TheInstance)[1].SettingInstance.SimpleSettingValue,
                                        ValueString(kid.value))
                  ELSE /\ Len(IntegerErrors(cEnc.diags)) = 1
                       /\ WireChildren(TheInstance) = <<>>

\* C11 witness: an integer just above the int64 range has failed to encode
C11_Witness ==
    /\ EncodedOne /\ cStage = "failed"
    /\ TheSetting.value_type = "integer" /\ TheSetting.value = StringValue(MinInt64Mag)
    /\ TheInstance.nil

\* the same setting under another definition_id
Renamed(setting, id) == [setting EXCEPT !.definition_id = id]

\* C12: the error of an encode failure identifies the failing element: the
\* same failing setting under another definition_id gives a different error.
C12_ErrorNamesTheElement ==
    (EncodedOne /\ cStage = "failed")
    => convertToAPISettings(ListValue(<<Renamed(TheSetting, "defZ")>>), <<>>).diags # cEnc.diags

(***************************************************************************)
(* Claims about the life cycle, continued.                                 *)
(***************************************************************************)
\* the call is a Create that gave up on an encode error
FailedOnEncode(call) ==
    /\ call.op = "Create" /\ call.error
    /\ HasError(convertToAPISettings(call.settings, <<>>).diags)

\* C13: a Create that failed on an encode error leaves nothing behind (no
\* request, no state); a following Create of a corrected list L succeeds as a
\* first Create of L does: one PUT of the encoding of L, the state Create
\* gives for L, and the remote list equal to the encoding of L.
C13_RetryAfterFailure ==
    \A r \in Resources :
        /\ (done[r] # <<>> /\ FailedOnEncode(LastCall(r)))
           => (~tfstate[r].present /\ RequestsOf(LastCall(r).n) = <<>>)
        /\ (/\ Len(done[r]) >= 2
            /\ FailedOnEncode(PrevCall(r)) /\ Succeeded(LastCall(r), "Create"))
           => /\ RequestsOf(LastCall(r).n) = ThePut(r, LastCall(r))
              /\ tfstate[r] = Model(PolicyOf(r), PolicyOf(r), LastCall(r).settings)
              /\ (Last(applied).n = LastCall(r).n /\ remote[PolicyOf(r)].exists)
                 => remote[PolicyOf(r)].settings = EncodingOf(LastCall(r).settings)

\* C13 witness: Create of a list with a bad integer has failed, Create of the
\* list without it has succeeded
C13_Witness ==
    \E r \in Resources :
        /\ Len(done[r]) = 2
        /\ FailedOnEncode(PrevCall(r)) /\ PrevCall(r).settings = ListValue(<<sA, sBadInt>>)
        /\ Succeeded(LastCall(r), "Create") /\ LastCall(r).settings = ListValue(<<sA>>)
        /\ tfstate[r].present /\ tfstate[r].settings = ListValue(<<sA>>)
        /\ remote[PolicyOf(r)].settings = EncodingOf(ListValue(<<sA>>))

(***************************************************************************)
(* Claims about the encoding of one setting, continued.                    *)
(***************************************************************************)
IsWireBoolean(ssv, v) ==
    /\ ~ssv.nil /\ ssv.ODataType = ODataBooleanValue /\ ssv.Value.k = "bool"
    /\ ssv.Value.v = IF v = StringValue(<<"true">>) THEN <<"true">> ELSE <<"false">>

\* C14: a boolean setting, and a boolean child of a choice or group, always
\* encodes: the wire value is true when the value is the text "true" and
\* false for every other value, the absent and the empty one included.
C14_BooleanEncoding ==
    EncodedOne =>
        /\ (TheSetting.value_type = "boolean")
           => /\ cStage = "encoded" /\ ~HasError(cEnc.diags) /\ ~TheInstance.nil
              /\ IsWireBoolean(TheInstance.SimpleSettingValue, TheSetting.value)
        /\ (TheSetting.value_type \in {"choice", "group"} /\ Len(TheSetting.children.elems) = 1
              /\ TheSetting.children.elems[1].value_type = "boolean")
           => /\ cStage = "encoded" /\ ~HasError(cEnc.diags)
              /\ Len(WireChildren(TheInstance)) = 1
              /\ IsWireBoolean(WireChildren(TheInstance)[1].SettingInstance.SimpleSettingValue,
                               TheSetting.children.elems[1].value)

\* C14 witness: the boolean "yes" has been encoded as false
C14_Witness ==
    /\ EncodedOne /\ TheSetting.value_type = "boolean"
    /\ TheSetting.value = StringValue(<<"yes">>)
    /\ TheInstance.SimpleSettingValue.Value = GoBool(FALSE)

(***************************************************************************)
(* Claims about the read path.                                             *)
(***************************************************************************)
\* r's last call is a Read that returned without error, and its GET was
\* answered from the list an edit outside Terraform had left on the policy
ReadOfExternalList(r) ==
    /\ done[r] # <<>> /\ LastCall(r).op = "Read" /\ ~LastCall(r).error
    /\ applied # <<>> /\ Last(applied).by = "external" /\ Last(applied).n < LastCall(r).n
    /\ remote[PolicyOf(r)].exists

IsIntegerNode(apiSetting) ==
    /\ ~apiSetting.SettingInstance.nil
    /\ ~apiSetting.SettingInstance.SimpleSettingValue.nil
    /\ apiSetting.SettingInstance.SimpleSettingValue.ODataType = ODataIntegerValue

\* C15: every integer simple setting with value n that the service returns
\* comes out of the read path as a setting of value_type "integer" whose value
\* is the canonical decimal text of n.
C15_ReadFormatsIntegers ==
    \A r \in Resources :
        ReadOfExternalList(r)
        => \A i \in 1..Len(remote[PolicyOf(r)].settings) :
              LET node == remote[PolicyOf(r)].settings[i]
              IN  IsIntegerNode(node)
                  => /\ tfstate[r].present
                     /\ \E j \in 1..Len(tfstate[r].settings.elems) :
                           LET m == tfstate[r].settings.elems[j]
                           IN  /\ m.definition_id = node.SettingInstance.SettingDefinitionId
                               /\ m.value_type = "integer"
                               /\ m.value = StringValue(node.SettingInstance.SimpleSettingValue.Value.v)

(***************************************************************************)
(* Claims about collections.                                               *)
(***************************************************************************)
\* the strings a JSON array text of strings lists, in order
StringsOf(t) == [i \in 1..Len(Unmarshal(t).values) |-> Unmarshal(t).values[i].v]

\* the text is a JSON array all of whose elements are strings
IsStringArrayText(t) ==
    /\ IsArrayText(t)
    /\ \A i \in 1..Len(Unmarshal(t).values) : Unmarshal(t).values[i].k = "string"

\* the run has encoded and decoded one collection setting that lists strings
CollectionOfStrings ==
    /\ DecodedOne /\ TheSetting.value_type = "collection"
    /\ ~TheSetting.value.null /\ IsStringArrayText(TheSetting.value.s)

\* the wire node has one string value per element, in order, and the decoded
\* list is one collection setting that lists the same strings in the same order
SameSequence ==
    LET strings == StringsOf(TheSetting.value.s)
    IN  /\ TheInstance.SimpleSettingCollectionValue =
              [i \in 1..Len(strings) |-> SimpleSettingValue(ODataStringValue, GoString(strings[i]))]
        /\ ~cDec.null /\ Len(cDec.elems) = 1
        /\ cDec.elems[1].value_type = "collection"
        /\ ~cDec.elems[1].value.null /\ IsStringArrayText(cDec.elems[1].value.s)
        /\ StringsOf(cDec.elems[1].value.s) = strings

CollectionErrors(diags) ==
    SelectSeq(diags, LAMBDA e : e.summary = "Invalid Collection Value")

\* C17: a collection setting fails to encode with a collection error for every
\* value that is not the text of a JSON array (absent, empty, not JSON, a JSON
\* object, a JSON scalar, JSON null) and encodes for every JSON array text.
C17_CollectionParse ==
    (EncodedOne /\ TheSetting.value_type = "collection")
    => IF ~TheSetting.value.null /\ IsArrayText(TheSetting.value.s)
       THEN ~HasError(cEnc.diags) /\ ~TheInstance.nil
       ELSE Len(CollectionErrors(cEnc.diags)) = 1 /\ TheInstance.nil

(***************************************************************************)
(* Claims about the children of a choice or group.                         *)
(***************************************************************************)
\* the run has encoded and decoded one choice or group
CompositeDecoded == DecodedOne /\ TheSetting.value_type \in {"choice", "group"}

\* the decoded list is one setting of the declared kind whose children are the
\* declared ones: as many, in the same order, each with the same
\* definition_id, value_type and value
SameChildren ==
    /\ ~cDec.null /\ Len(cDec.elems) = 1
    /\ cDec.elems[1].value_type = TheSetting.value_type
    /\ cDec.elems[1].children.elems = TheSetting.children.elems

\* C18 (as claimed): a choice or group whose children each have a value valid
\* for their kind (integer: any text that parses as an int64) decodes from its
\* encoding with the same children in the same order.
C18_ChildrenOfValid ==
    (CompositeDecoded
        /\ \A i \in 1..Len(TheSetting.children.elems) : ValidForKind(TheSetting.children.elems[i]))
    => SameChildren

\* C18 (amended): a choice or group whose children each have a value canonical
\* for their kind (integer: canonical decimal text) decodes from its encoding
\* with as many children, in the original order, each with the same
\* definition_id, value_type and value.
C18_ChildrenOfCanonical ==
    (CompositeDecoded
        /\ \A i \in 1..Len(TheSetting.children.elems) : CanonicalForKind(TheSetting.children.elems[i]))
    => SameChildren

\* C18 witness: a choice with a string child and a boolean child has come back
\* with both, in that order
C18_Witness ==
    /\ CompositeDecoded /\ TheSetting.value_type = "choice"
    /\ TheSetting.children.elems =
          <<ChildSettingModel("kidA", "string", StringValue(<<"a">>)),
            ChildSettingModel("kidC", "boolean", StringValue(<<"true">>))>>
    /\ cDec.elems[1].children = ListValue(TheSetting.children.elems)

\* the run has encoded one choice or group that has no children (null or empty)
ChildlessEncoded ==
    /\ cStage # "start" /\ Len(cIn.elems) = 1
    /\ TheSetting.value_type \in {"choice", "group"}
    /\ Len(TheSetting.children.elems) = 0

TheCompositeValue ==
    IF TheSetting.value_type = "choice" THEN TheInstance.ChoiceSettingValue
    ELSE TheInstance.GroupSettingValue

\* C19: a choice or group with zero children (null or an empty list) encodes
\* to a wire node without a children member, and that node decodes to a
\* setting of the same kind with zero children.
C19_ZeroChildren ==
    ChildlessEncoded =>
        /\ cStage # "failed" /\ ~TheInstance.nil
        /\ ~TheCompositeValue.nil /\ ~ChildrenFieldPresent(TheCompositeValue)
        /\ (cStage = "decoded")
           => /\ ~cDec.null /\ Len(cDec.elems) = 1
              /\ cDec.elems[1].value_type = TheSetting.value_type
              /\ Len(cDec.elems[1].children.elems) = 0

\* C19 witness: a group declared with an empty child list has been encoded and
\* decoded
C19_Witness ==
    /\ ChildlessEncoded /\ cStage = "decoded"
    /\ TheSetting.value_type = "group" /\ TheSetting.children = ListValue(<<>>)
    /\ cDec.elems[1].value_type = "group" /\ cDec.elems[1].children = ListNull

(***************************************************************************)
(* Decoding a wire list as the service may hold it: simple values of every *)
(* subtype tag, known or not, carrying the Go values encoding/json and the *)
(* encoder produce, choices, groups, collections, and nodes without an     *)
(* instance or without any value.                                          *)
(***************************************************************************)
ODataSecretValue == "#microsoft.graph.deviceManagementConfigurationSecretSettingValue"

WireTags == {ODataStringValue, ODataIntegerValue, ODataBooleanValue, ODataSecretValue, ""}

WireValues ==
    {GoString(<<"a">>), GoFloat64(<<"1">>), GoFloat64(<<"1", "0", "0", "0", "0", "0", "0">>),
     GoInt64(<<"-", "1">>), GoBool(TRUE), GoNil}

SimpleNode(id, tag, val) ==
    SettingsCatalogPolicySetting(
        [SettingInstance(id) EXCEPT !.ODataType = ODataSimpleInstance,
                                    !.SimpleSettingValue = SimpleSettingValue(tag, val)])

ChoiceNode(id, val, children) ==
    SettingsCatalogPolicySetting(
        [SettingInstance(id) EXCEPT !.ODataType = ODataChoiceInstance,
                                    !.ChoiceSettingValue = ChoiceSettingValue(val, children)])

GroupNode(id, children) ==
    SettingsCatalogPolicySetting(
        [SettingInstance(id) EXCEPT !.ODataType = ODataGroupInstance,
                                    !.GroupSettingValue = GroupSettingValue(children)])

CollectionNode(id, vals) ==
    SettingsCatalogPolicySetting(
        [SettingInstance(id) EXCEPT !.ODataType = ODataCollectionInstance,
                                    !.SimpleSettingCollectionValue = vals])

ODataGroupCollectionInstance ==
    "#microsoft.graph.deviceManagementConfigurationGroupSettingCollectionInstance"

GroupCollectionNode(id, groups) ==
    SettingsCatalogPolicySetting(
        [SettingInstance(id) EXCEPT !.ODataType = ODataGroupCollectionInstance,
                                    !.GroupSettingCollectionValue = groups])

SimpleNodes == {SimpleNode("defS", tag, val) : tag \in WireTags, val \in WireValues}

OtherNodes ==
    {ChoiceNode("defC", <<"a">>, <<>>),
     ChoiceNode("defC", <<"a">>, <<SimpleNode("kidS", ODataSecretValue, GoString(<<"a">>)),
                                   SimpleNode("kidI", ODataIntegerValue, GoInt64(<<"1">>))>>),
     GroupNode("defG", <<SimpleNode("kidB", ODataBooleanValue, GoBool(FALSE))>>),
     CollectionNode("defL", <<SimpleSettingValue(ODataSecretValue, GoString(<<"a">>)),
                              SimpleSettingValue(ODataStringValue, GoFloat64(<<"1">>))>>),
     ChoiceNode("defN", <<"a">>,
                <<SimpleNode("kidS", ODataStringValue, GoString(<<"a">>)),
                  GroupNode("kidG", <<SimpleNode("kidB", ODataBooleanValue, GoBool(TRUE))>>),
                  ChoiceNode("kidC", <<"b">>,
                             <<SimpleNode("kidI", ODataIntegerValue, GoInt64(<<"1">>))>>),
                  SimpleNode("kidI", ODataIntegerValue, GoInt64(<<"1">>))>>),
     GroupCollectionNode("defM",
         <<GroupSettingValue(<<SimpleNode("kidS", ODataStringValue, GoString(<<"a">>))>>)>>),
     SettingsCatalogPolicySetting(NilSettingInstance),
     SettingsCatalogPolicySetting(SettingInstance("defU"))}

WireLists == SeqsUpTo(SimpleNodes \cup OtherNodes, MaxList)

InitWire ==
    /\ LifeInit
    /\ cIn = ListNull /\ cStage = "wire"
    /\ \E w \in WireLists : cEnc = [apiSettings |-> w, diags |-> <<>>]
    /\ cDec = ListNull /\ cEnc2 = NoEnc /\ cDec2 = ListNull

DecodeWire ==
    /\ cStage = "wire"
    /\ cDec' = convertAPISettingsToModel(cEnc.apiSettings)
    /\ cStage' = "wiredecoded"
    /\ UNCHANGED <<cIn, cEnc, cEnc2, cDec2>>
    /\ UNCHANGED lifeVars

WireNext == DecodeWire

SpecWire == InitWire /\ [][WireNext]_vars

(***************************************************************************)
(* Claims about decoding a wire list.                                      *)
(***************************************************************************)
IsSimple(a) == ~a.SettingInstance.nil /\ ~a.SettingInstance.SimpleSettingValue.nil

\* a simple value whose subtype tag is none of string, integer, boolean
IsUnknownSimple(a) ==
    /\ IsSimple(a)
    /\ a.SettingInstance.SimpleSettingValue.ODataType
          \notin {ODataStringValue, ODataIntegerValue, ODataBooleanValue}

\* the node with the string tag in place of an unknown one, at top level and
\* in the children of a choice or group
RetagSimple(a) ==
    IF IsUnknownSimple(a)
    THEN [a EXCEPT !.SettingInstance.SimpleSettingValue.ODataType = ODataStringValue]
    ELSE a

Retag(a) ==
    LET kids(cs) == [i \in 1..Len(cs) |-> RetagSimple(cs[i])]
    IN  IF a.SettingInstance.nil THEN a
        ELSE [RetagSimple(a) EXCEPT
                !.SettingInstance.ChoiceSettingValue.Children = kids(@),
                !.SettingInstance.GroupSettingValue.Children = kids(@)]

TheWireList == cEnc.apiSettings

\* C20: decoding any wire list gives a list; a simple node with an unknown
\* subtype tag becomes a setting of value_type "string" with the stringified
\* wire value, and the whole list decodes as it does with the string tag in
\* place of every unknown one.
C20_UnknownSubtypeIsString ==
    (cStage = "wiredecoded") =>
        /\ Len(cDec.elems) <= Len(TheWireList)
        /\ cDec = convertAPISettingsToModel([i \in 1..Len(TheWireList) |-> Retag(TheWireList[i])])
        /\ (\A i \in 1..Len(TheWireList) : IsSimple(TheWireList[i]))
           => /\ Len(cDec.elems) = Len(TheWireList)
              /\ \A i \in 1..Len(TheWireList) :
                    IsUnknownSimple(TheWireList[i])
                    => cDec.elems[i] =
                          SettingModel(TheWireList[i].SettingInstance.SettingDefinitionId,
                                       "string",
                                       StringValue(Sprintf_v(
                                           TheWireList[i].SettingInstance.SimpleSettingValue.Value)),
                                       ListNull)

\* C20 witness: a list of a node with an unknown subtype tag and an integer
\* node has been decoded into a string setting and an integer setting
C20_Witness ==
    /\ cStage = "wiredecoded"
    /\ TheWireList = <<SimpleNode("defS", ODataSecretValue, GoString(<<"a">>)),
                       SimpleNode("defS", ODataIntegerValue, GoInt64(<<"-", "1">>))>>
    /\ cDec = ListValue(<<SettingModel("defS", "string", StringValue(<<"a">>), ListNull),
                          SettingModel("defS", "integer", StringValue(<<"-", "1">>), ListNull)>>)

(***************************************************************************)
(* Claims about the order of a list.                                       *)
(***************************************************************************)
\* the kind a wire node is tagged with
WireKind(instance) ==
    CASE instance.ODataType = ODataChoiceInstance     -> "choice"
      [] instance.ODataType = ODataGroupInstance      -> "group"
      [] instance.ODataType = ODataCollectionInstance -> "collection"
      [] instance.ODataType = ODataSimpleInstance ->
            (CASE instance.SimpleSettingValue.ODataType = ODataStringValue  -> "string"
               [] instance.SimpleSettingValue.ODataType = ODataIntegerValue -> "integer"
               [] instance.SimpleSettingValue.ODataType = ODataBooleanValue -> "boolean"
               [] OTHER -> "")
      [] OTHER -> ""

\* C21: when the encode of a list reports no error, the output has one wire
\* node per declared setting, and the i-th node carries the definition_id and
\* the kind of the i-th setting.
C21_EncodeKeepsOrder ==
    (cStage \in {"encoded", "decoded", "encoded2", "decoded2"}) =>
        /\ ~HasError(cEnc.diags)
        /\ Len(cEnc.apiSettings) = Len(cIn.elems)
        /\ \A i \in 1..Len(cIn.elems) :
              /\ ~cEnc.apiSettings[i].SettingInstance.nil
              /\ cEnc.apiSettings[i].SettingInstance.SettingDefinitionId = cIn.elems[i].definition_id
              /\ WireKind(cEnc.apiSettings[i].SettingInstance) = cIn.elems[i].value_type

\* C21 witness: a list of two settings of different kinds has been encoded
C21_Witness ==
    /\ cStage = "encoded" /\ cIn = ListValue(<<sB, sA>>)
    /\ cEnc.apiSettings[1].SettingInstance.SettingDefinitionId = "defB"
    /\ cEnc.apiSettings[2].SettingInstance.SettingDefinitionId = "defA"

\* the wire node carries a value of one of the kinds of the wire schema
HasWireValue(a) ==
    /\ ~a.SettingInstance.nil
    /\ \/ ~a.SettingInstance.SimpleSettingValue.nil
       \/ ~a.SettingInstance.ChoiceSettingValue.nil
       \/ Len(a.SettingInstance.SimpleSettingCollectionValue) > 0
       \/ ~a.SettingInstance.GroupSettingValue.nil
       \/ Len(a.SettingInstance.GroupSettingCollectionValue) > 0

\* C22: the decoded list has one setting per wire node, and the i-th decoded
\* setting carries the definition_id of the i-th wire node (stated for wire
\* lists all of whose nodes carry a value, as the service returns them).
C22_DecodeKeepsEveryNode ==
    (cStage = "wiredecoded" /\ \A i \in 1..Len(TheWireList) : HasWireValue(TheWireList[i]))
    => /\ Len(cDec.elems) = Len(TheWireList)
       /\ \A i \in 1..Len(TheWireList) :
             cDec.elems[i].definition_id = TheWireList[i].SettingInstance.SettingDefinitionId

\* a child wire node that is itself a composite: a group, or a choice that
\* carries children of its own
IsNestedComposite(a) ==
    /\ ~a.SettingInstance.nil
    /\ \/ ~a.SettingInstance.GroupSettingValue.nil
       \/ /\ ~a.SettingInstance.ChoiceSettingValue.nil
          /\ Len(a.SettingInstance.ChoiceSettingValue.Children) > 0

\* the run has decoded one choice or group node some of whose children are
\* composites themselves
NestedDecoded ==
    /\ cStage = "wiredecoded" /\ Len(TheWireList) = 1
    /\ ~TheWireList[1].SettingInstance.nil
    /\ \E i \in 1..Len(WireChildren(TheWireList[1].SettingInstance)) :
          IsNestedComposite(WireChildren(TheWireList[1].SettingInstance)[i])

\* C23: decoding a choice or group drops every child that is itself a
\* composite, records a diagnostic for the drop, and keeps the other children
\* in their original order.
C23_NestedCompositeDropped ==
    NestedDecoded =>
        LET kids == WireChildren(TheWireList[1].SettingInstance)
            rest == SelectSeq(kids, LAMBDA a : ~IsNestedComposite(a))
        IN  /\ Len(cDec.elems) = 1
            /\ cDec.elems[1].children = parseChildSettings(rest)
            /\ decodeDiagnostics(TheWireList) # <<>>

(***************************************************************************)
(* Claims about null and empty children.                                   *)
(***************************************************************************)
\* C24: every decoded setting without children has an empty children list,
\* not a null one, and the encode of a setting is the same whether its
\* children are null or an empty list.
C24_ChildrenEmptyNotNull ==
    (cStage = "decoded") =>
        /\ \A i \in 1..Len(cDec.elems) :
              Len(cDec.elems[i].children.elems) = 0 => cDec.elems[i].children = ListValue(<<>>)
        /\ \A i \in 1..Len(cIn.elems) :
              Len(cIn.elems[i].children.elems) = 0
              => convertSettingInstance([cIn.elems[i] EXCEPT !.children = ListNull], <<>>)
                    = convertSettingInstance([cIn.elems[i] EXCEPT !.children = ListValue(<<>>)], <<>>)

(***************************************************************************)
(* The intune_scope_tag resource.  Each handler runs to its end in one     *)
(* step, the answers of the service included.  remote maps a tag id to     *)
(* the tag the service holds, tfstate a resource to its scope tag model,   *)
(* sent lists the requests, done the finished calls.  GetScopeTag and      *)
(* CreateScopeTag rebuild the tag from the GraphResponse, which carries    *)
(* the id alone.                                                           *)
(***************************************************************************)
TagIds == {"0", "7"}
TagNames == {"a", "b"}

TagAbsent == [present |-> FALSE, id |-> "", display_name |-> "", is_built_in |-> FALSE]
ScopeTagResourceModel(id, name, builtIn) ==
    [present |-> TRUE, id |-> id, display_name |-> name, is_built_in |-> builtIn]

\* the status the service answers a request on tag id with
TagStatus(id, outcome) ==
    IF ~remote[id].exists THEN 404 ELSE IF outcome = "fail" THEN 500 ELSE 200

TagRequest(r, op, method, id, body) ==
    [n |-> nops + 1, by |-> r, op |-> op,
     request |-> Request(method, "roleScopeTags", id, body)]

\* the handler returns
TagFinished(r, op, error, state, requests) ==
    /\ tfstate' = [tfstate EXCEPT ![r] = state]
    /\ done' = [done EXCEPT ![r] = Append(@, [op |-> op, n |-> nops + 1, error |-> error])]
    /\ sent' = sent \o requests
    /\ nops' = nops + 1
    /\ UNCHANGED <<pc, cur, req, resp, applied>>
    /\ UNCHANGED codecVars

InitTag ==
    /\ remote = [id \in TagIds |-> [exists |-> id = "0", displayName |-> "Default"]]
    /\ tfstate = [r \in Resources |-> TagAbsent]
    /\ pc = [r \in Resources |-> "idle"]
    /\ cur = [r \in Resources |-> NoCall]
    /\ req = [r \in Resources |-> NilRequest]
    /\ resp = [r \in Resources |-> NilResponse]
    /\ sent = <<>>
    /\ done = [r \in Resources |-> <<>>]
    /\ applied = <<>>
    /\ nops = 0
    /\ CodecIdle

\* Create: POST /roleScopeTags; the service gives the new tag the id "7"
ScopeTagCreate(r, name, outcome) ==
    /\ ~tfstate[r].present /\ nops < MaxOps
    /\ LET q  == TagRequest(r, "Create", "POST", "", name)
           ok == outcome = "ok" /\ ~remote["7"].exists
       IN  IF ok
           THEN /\ remote' = [remote EXCEPT !["7"] = [exists |-> TRUE, displayName |-> name]]
                /\ TagFinished(r, "Create", FALSE, ScopeTagResourceModel("7", "", FALSE), <<q>>)
           ELSE /\ UNCHANGED remote
                /\ TagFinished(r, "Create", TRUE, tfstate[r], <<q>>)

\* Read: GET /roleScopeTags/{id}; GetScopeTag wraps every error, so the
\* NotFound test of the handler never matches
ScopeTagRead(r, outcome) ==
    /\ tfstate[r].present /\ nops < MaxOps
    /\ LET id == tfstate[r].id
           q  == TagRequest(r, "Read", "GET", id, "")
       IN  /\ UNCHANGED remote
           /\ IF TagStatus(id, outcome) # 200
              THEN TagFinished(r, "Read", TRUE, tfstate[r], <<q>>)
              ELSE TagFinished(r, "Read", FALSE, ScopeTagResourceModel(id, "", FALSE), <<q>>)

\* Update: PATCH /roleScopeTags/{id}, then GET; the id comes from the state
ScopeTagUpdate(r, name, outcome, outcome2) ==
    /\ tfstate[r].present /\ nops < MaxOps
    /\ tfstate[r].display_name # name
    /\ LET id == tfstate[r].id
           q  == TagRequest(r, "Update", "PATCH", id, name)
           g  == TagRequest(r, "Update", "GET", id, "")
       IN  IF TagStatus(id, outcome) # 200
           THEN /\ UNCHANGED remote
                /\ TagFinished(r, "Update", TRUE, tfstate[r], <<q>>)
           ELSE /\ remote' = [remote EXCEPT ![id].displayName = name]
                /\ IF outcome2 # "ok"
                   THEN TagFinished(r, "Update", TRUE, tfstate[r], <<q, g>>)
                   ELSE TagFinished(r, "Update", FALSE, ScopeTagResourceModel(id, "", FALSE),
                                    <<q, g>>)

\* Delete: refused for the id "0"; otherwise DELETE /roleScopeTags/{id}, whose
\* error is returned unwrapped, so a NotFound answer counts as done
ScopeTagDelete(r, outcome) ==
    /\ tfstate[r].present /\ nops < MaxOps
    /\ LET id == tfstate[r].id
           q  == TagRequest(r, "Delete", "DELETE", id, "")
       IN  IF id = "0"
           THEN /\ UNCHANGED remote
                /\ TagFinished(r, "Delete", TRUE, tfstate[r], <<>>)
           ELSE IF TagStatus(id, outcome) = 500
           THEN /\ UNCHANGED remote
                /\ TagFinished(r, "Delete", TRUE, tfstate[r], <<q>>)
           ELSE /\ remote' = [remote EXCEPT ![id].exists = FALSE]
                /\ TagFinished(r, "Delete", FALSE, TagAbsent, <<q>>)

\* ImportState: the passthrough of the id
ScopeTagImportState(r, id) ==
    /\ ~tfstate[r].present /\ nops < MaxOps
    /\ UNCHANGED remote
    /\ TagFinished(r, "ImportState", FALSE, ScopeTagResourceModel(id, "", FALSE), <<>>)

TagNext ==
    \/ \E r \in Resources, name \in TagNames, o \in Outcomes : ScopeTagCreate(r, name, o)
    \/ \E r \in Resources, o \in Outcomes : ScopeTagRead(r, o)
    \/ \E r \in Resources, name \in TagNames, o \in Outcomes, o2 \in Outcomes :
          ScopeTagUpdate(r, name, o, o2)
    \/ \E r \in Resources, o \in Outcomes : ScopeTagDelete(r, o)
    \/ \E r \in Resources, id \in TagIds : ScopeTagImportState(r, id)

SpecTag == InitTag /\ [][TagNext]_vars

\* C25: no request that changes or deletes a scope tag (PATCH or DELETE) is
\* ever sent for the built-in scope tag, the one with the id "0".
C25_DefaultTagNeverModified ==
    \A i \in 1..Len(sent) :
        sent[i].request.policy = "0" => sent[i].request.method \notin {"PATCH", "DELETE"}

\* the step in which the handler op of r returns on the answer of the service
ReturnOf(r, op) ==
    pc[r] = "waiting" /\ cur[r].op = op /\ ~resp[r].nil /\ pc'[r] = "idle"

\* the outcome the returning handler of r records
ReportsError(r) == done'[r][Len(done'[r])].error

\* C26: a Read whose GET of the policy is answered with the Graph error
\* "NotFound" removes the resource from state and reports no error.
C26_ReadOfMissingPolicy ==
    [][\A r \in Resources :
         (ReturnOf(r, "Read") /\ resp[r].status = 404 /\ resp[r].code = "NotFound")
         => (~tfstate'[r].present /\ ~ReportsError(r))]_vars

\* C27: a Delete whose clearing PUT is answered with the Graph error "NotFound"
\* reports no error and leaves the resource absent from state.
C27_DeleteOfMissingPolicy ==
    [][\A r \in Resources :
         (ReturnOf(r, "Delete") /\ resp[r].status = 404 /\ resp[r].code = "NotFound")
         => (~tfstate'[r].present /\ ~ReportsError(r))]_vars

\* C28: a Read answered with the policy and an empty setting list removes the
\* resource from state, rather than keeping it with an empty list, and reports
\* no error.
C28_ReadOfEmptyPolicy ==
    [][\A r \in Resources :
         (ReturnOf(r, "Read") /\ resp[r].status = 200 /\ resp[r].settings = <<>>)
         => (tfstate'[r] = Absent /\ ~ReportsError(r))]_vars

\* C28 witness: r created an empty list, nothing else wrote to the policy, and
\* the Read that followed returned without error and removed the resource
C28_Witness ==
    \E r \in Resources :
        /\ Len(done[r]) = 2 /\ Succeeded(PrevCall(r), "Create")
        /\ PrevCall(r).settings = ListValue(<<>>)
        /\ Succeeded(LastCall(r), "Read")
        /\ Len(applied) = 1
        /\ remote[PolicyOf(r)].exists /\ remote[PolicyOf(r)].settings = <<>>
        /\ tfstate[r] = Absent

\* C29: when UpdateSettingsCatalogPolicySettings returns an error, Create and
\* Update report it and leave the state of the resource as it was (nothing
\* for Create, the prior state for Update); the state holds the planned list
\* only when the write succeeded.
C29_FailedWriteKeepsState ==
    [][\A r \in Resources :
         (ReturnOf(r, "Create") \/ ReturnOf(r, "Update"))
         => IF resp[r].status >= 400
            THEN /\ tfstate'[r] = tfstate[r]
                 /\ ReportsError(r)
                 /\ cur[r].op = "Create" => ~tfstate'[r].present
            ELSE /\ tfstate'[r] = Model(cur[r].data.policy_id, cur[r].data.policy_id,
                                        cur[r].data.settings)
                 /\ ~ReportsError(r)]_vars

\* C29 witness: an Update of r to another list got its PUT sent and failed,
\* and the state still holds the created list; the Create of another
\* resource got its PUT sent and failed, and that resource has no state
C29_Witness ==
    \E r, o \in Resources :
        /\ r # o
        /\ Len(done[r]) = 2 /\ Succeeded(PrevCall(r), "Create")
        /\ LastCall(r).op = "Update" /\ LastCall(r).error
        /\ Len(RequestsOf(LastCall(r).n)) = 1
        /\ LastCall(r).settings # PrevCall(r).settings
        /\ tfstate[r] = Model(PolicyOf(r), PolicyOf(r), PrevCall(r).settings)
        /\ Len(done[o]) = 1 /\ LastCall(o).op = "Create" /\ LastCall(o).error
        /\ Len(RequestsOf(LastCall(o).n)) = 1
        /\ tfstate[o] = Absent

\* C30: whenever a settings resource is present in state, its id equals its
\* policy_id.
C30_IdIsPolicyId ==
    \A r \in Resources : tfstate[r].present => tfstate[r].id = tfstate[r].policy_id

\* C30 witness: one resource is in state after a Create and an Update, another
\* after an ImportState, each with id and policy_id alike
C30_Witness ==
    \E r, o \in Resources :
        /\ r # o
        /\ Len(done[r]) = 2 /\ Succeeded(PrevCall(r), "Create")
        /\ Succeeded(LastCall(r), "Update")
        /\ tfstate[r].present /\ tfstate[r].id = PolicyOf(r) /\ tfstate[r].policy_id = PolicyOf(r)
        /\ Len(done[o]) = 1 /\ Succeeded(LastCall(o), "ImportState")
        /\ tfstate[o].present /\ tfstate[o].id = tfstate[o].policy_id

====
